---- MODULE Spec2Model ----
(***************************************************************************)
(* Model of the A2A orchestrator of CIO-Agent                              *)
(* (src/src/cio_agent/orchestrator.py).                                    *)
(*                                                                         *)
(* The orchestrator keeps an audit log (message_log) and a dictionary of   *)
(* pending futures (_pending_responses).  Callers are asyncio tasks        *)
(* ("flows"); a flow inside receive_task_response / receive_rebuttal is    *)
(* suspended in asyncio.wait_for until its future is resolved, its timer   *)
(* fires or it is cancelled.  deliver_response / deliver_rebuttal /        *)
(* get_message_history are plain synchronous calls made from any flow.     *)
(*                                                                         *)
(* A future lives exactly as long as the call that created it, so a future *)
(* is identified with the flow whose running call created it.              *)
(* The steps of asyncio.wait_for follow CPython 3.11 (asyncio/tasks.py).   *)
(***************************************************************************)
EXTENDS Integers, Sequences, FiniteSets, TLC

\* ---------------------------------------------------------------- bounds
NFlows     == 2     \* concurrent caller flows (asyncio tasks)
MaxOps     == 3     \* orchestrator methods called in one run

\* ------------------------------------------------------------- constants
Flows     == 1..NFlows
Agents    == {"a1", "a2"}
Tasks     == {"t1"}
Phases    == {"response", "rebuttal"}
CioAgentId == "cio-agent-green"

\* values of the A2AMessageType enumeration
A2AMessageType == {"task_assignment", "challenge", "response", "rebuttal"}

NoFlow    == 0      \* key absent from _pending_responses
Pending   == 0      \* future not done
Cancelled == 0 - 1  \* future cancelled
None      == 0      \* Python None as a returned value
Replies   == 1..MaxOps

\* f"response_{agent_id}" / f"rebuttal_{agent_id}": the two prefixes differ,
\* so the key string determines (phase, agent id) and conversely.
response_key(agent_id) == <<"response", agent_id>>
rebuttal_key(agent_id) == <<"rebuttal", agent_id>>
PhaseKey_IgnoresPhase(phase, agent_id) == response_key(agent_id)
PhaseKey(phase, agent_id) ==
    IF phase = "response" THEN response_key(agent_id) ELSE rebuttal_key(agent_id)
Keys == {PhaseKey(p, a) : p \in Phases, a \in Agents}
NoKey == <<"none", "none">>

VARIABLES
    message_log,        \* self.message_log: sequence of A2AMessage
    pending_responses,  \* self._pending_responses: key -> flow owning the future
    message_handler,    \* TRUE iff a message_handler was given to __init__
    pc,                 \* where each flow is
    fut,                \* state of the future of a flow's running call
    call,               \* the running call of each flow
    last,               \* the receive_* call that finished last
    nCalls,             \* receive_* calls started so far
    nSent,              \* send_* calls made so far
    nextReply,          \* next fresh reply object
    nHist,              \* get_message_history calls made so far
    nMut,               \* in-place edits the caller made to the returned list
    dropped,            \* per reply: was it delivered when no slot was pending
    history,            \* list returned by the last get_message_history
    green,              \* state of one GreenAgent.run (green_agent.py)
    csv,                \* state of one run of scripts/run_csv_eval.py
    conv,               \* last call of GreenAgent._convert_synthetic_to_tasks
    alpha,              \* last alpha score computed by the scoring engine
    guard,              \* last scan of the lookahead guard
    tracker,            \* the cost tracker of one evaluation
    llm,                \* the cached evaluator LLM configuration
    named,              \* number of agent ids used so far in this run
    sent,               \* id of the message the last finished send_* returned,
                        \* negated when that send raised instead
    asked               \* arguments of the last call, where a run records them

vars == <<message_log, pending_responses, message_handler, pc, fut, call, last,
          nCalls, nSent, nextReply, nHist, nMut, dropped, history, green, csv, named,
          sent, asked, conv, alpha, guard, tracker, llm>>

\* the components that are exercised on their own
LibVars == <<conv, alpha, guard, tracker, llm>>

\* a flow suspended inside asyncio.wait_for
WaitPcs    == {"waiting", "timer", "cancelreq", "unwindT", "unwindC"}
\* ... whose future can still be resolved
LivePcs    == {"waiting", "timer", "cancelreq"}
Blocked(f) == pc[f] \in WaitPcs

\* What is remembered of a reply delivered when no slot was pending: the key
\* it was for and whether a send_task_assignment to that agent was still
\* running.
\* NotDropped: not delivered, or a slot was pending.
NotDropped == [key |-> NoKey, sending |-> FALSE]

\* A call record: the operation, its key, how it ended and what it returned,
\* and what was observed while it ran:
\*   overlap  another wait on the same key was blocked at some time of this one
\*   first    the first reply delivered for the key while this wait was live
\*   more     a further reply was delivered for the key after `first`
\*   prior    how the wait that finished last had ended, if on the same key
\*   afterDrop the call started after a reply for its key had been dropped
\*            while send_task_assignment to the agent was running
NoCall == [op |-> "none", key |-> NoKey, outcome |-> "none",
           value |-> None, overlap |-> FALSE, first |-> None, more |-> FALSE,
           prior |-> "none", afterDrop |-> FALSE]

\* Arguments of a call, as a run that records them sees them
NotAsked == [op |-> "none", agent_id |-> "None", message_type |-> "None",
             task_id |-> "None"]

\* Caller tasks are anonymous: a call is started by the first flow that is
\* not inside a call.
Free(f) == pc[f] = "idle" /\ \A g \in Flows : g < f => pc[g] # "idle"

\* operations started so far in this run
OpsSoFar == nCalls + (nextReply - 1) + nSent + nHist + nMut

\* A2AMessage.task_assignment / A2AMessage.challenge: a fresh message
A2AMessage(type, sender_id, receiver_id, task_id) ==
    [id |-> nSent + 1, message_type |-> type,
     sender_id |-> sender_id, receiver_id |-> receiver_id, task_id |-> task_id]

\* _log_message: self.message_log.append(message)
_log_message_Prepend(log, message) == <<message>> \o log
_log_message(log, message) == Append(log, message)

Absent == "absent"       \* a key the dict does not have

\* what run() has done for one task: messages sent, objects built, where the
\* debate stands, whether evaluate_response returned or the try raised
NoDebateResult == [debate_multiplier |-> Absent, conviction_level |-> Absent]
NoTrace == [task_messages |-> 0, agent_response |-> 0, challenges |-> 0,
            agent_rebuttal |-> 0, debate |-> "NotStarted", graded |-> FALSE,
            raised |-> FALSE, debate_result |-> NoDebateResult,
            counter_arg |-> Absent]

\* GreenAgent.run before it is called
GreenInit == [pc |-> "idle", conduct_debate |-> TRUE, num_tasks |-> 0, i |-> 0,
              ticker |-> "NVDA", tasks |-> <<>>, trace |-> <<>>,
              all_results |-> <<>>,
              valid_request |-> TRUE,
              simulation_date |-> Absent, synthetic_questions |-> 0,
              count |-> 0,
              generator_calls |-> 0, yielded |-> <<>>, reraised |-> FALSE,
              assessment_result |-> [num_tasks |-> 0, num_successful |-> 0,
                                     average_alpha_score |-> 0],
              updater |-> [reject |-> 0, working |-> FALSE, artifacts |-> 0,
                           failed |-> 0]]

\* run_csv_eval's main before it is called
CsvInit == [pc |-> "idle", no_debate |-> FALSE, templates |-> 0, i |-> 0,
            failed |-> {}, results |-> <<>>]

\* the components before they are used
Idle == [called |-> FALSE]
LibInit ==
    <<Idle, Idle, Idle, [calls |-> <<>>, total_cost_usd |-> 0],
      [env |-> "gpt-4o-mini", cached |-> 0, built |-> <<>>, log |-> <<>>]>>

\* a behaviour exercises one component: the others are as Init leaves them
Only(i) == \A j \in 1..Len(LibVars) : j # i => LibVars[j] = LibInit[j]

Init ==
    /\ message_log = <<>>
    /\ pending_responses = [k \in Keys |-> NoFlow]
    /\ message_handler \in BOOLEAN
    /\ pc = [f \in Flows |-> "idle"]
    /\ fut = [f \in Flows |-> Pending]
    /\ call = [f \in Flows |-> NoCall]
    /\ last = NoCall
    /\ nCalls = 0
    /\ nSent = 0
    /\ nextReply = 1
    /\ nHist = 0
    /\ nMut = 0
    /\ dropped = [r \in Replies |-> NotDropped]
    /\ history = [alias |-> FALSE, items |-> <<>>]
    /\ green = GreenInit
    /\ csv = CsvInit
    /\ conv = LibInit[1]
    /\ alpha = LibInit[2]
    /\ guard = LibInit[3]
    /\ tracker = LibInit[4]
    /\ llm = LibInit[5]
    /\ named = 0
    /\ sent = None
    /\ asked = NotAsked

\* ------------------------------------------------ send_task_assignment /
\* ------------------------------------------------ send_challenge
\* Build the message, log it, then (only with a handler) await the handler.
\* The value returned is the message (named here by its id).
SendMessage_SwapsIds(f, op, type, agent_id, task_id) ==
    /\ Free(f)
    /\ OpsSoFar < MaxOps
    /\ message_log' = _log_message(message_log,
                          A2AMessage(type, agent_id, CioAgentId, task_id))
    /\ pc' = [pc EXCEPT ![f] = IF message_handler THEN "sending" ELSE "idle"]
    /\ call' = [call EXCEPT ![f] =
                  IF message_handler
                    THEN [NoCall EXCEPT !.op = op, !.key = <<"send", agent_id>>,
                                        !.value = nSent + 1]
                    ELSE NoCall]
    /\ nSent' = nSent + 1
    /\ sent' = IF message_handler THEN sent ELSE nSent + 1
    /\ UNCHANGED <<pending_responses, message_handler, fut, nCalls, nextReply,
                   nHist, nMut, dropped, history,
                   green, csv, LibVars, last>>

SendMessage_HandlerFirst(f, op, type, agent_id, task_id) ==
    /\ Free(f)
    /\ OpsSoFar < MaxOps
    /\ message_log' = IF message_handler THEN message_log
                      ELSE _log_message(message_log,
                              A2AMessage(type, CioAgentId, agent_id, task_id))
    /\ pc' = [pc EXCEPT ![f] = IF message_handler THEN "sending" ELSE "idle"]
    /\ call' = [call EXCEPT ![f] =
                  IF message_handler
                    THEN [NoCall EXCEPT !.op = op, !.key = <<"send", agent_id>>,
                                        !.value = nSent + 1]
                    ELSE NoCall]
    /\ nSent' = nSent + 1
    /\ sent' = IF message_handler THEN sent ELSE nSent + 1
    /\ UNCHANGED <<pending_responses, message_handler, fut, nCalls, nextReply,
                   nHist, nMut, dropped, history,
                   green, csv, LibVars, last>>

SendMessage(f, op, type, agent_id, task_id) ==
    /\ Free(f)
    /\ OpsSoFar < MaxOps
    /\ message_log' = _log_message(message_log,
                          A2AMessage(type, CioAgentId, agent_id, task_id))
    /\ pc' = [pc EXCEPT ![f] = IF message_handler THEN "sending" ELSE "idle"]
    /\ call' = [call EXCEPT ![f] =
                  IF message_handler
                    THEN [NoCall EXCEPT !.op = op, !.key = <<"send", agent_id>>,
                                        !.value = nSent + 1]
                    ELSE NoCall]
    /\ nSent' = nSent + 1
    /\ sent' = IF message_handler THEN sent ELSE nSent + 1
    /\ UNCHANGED <<pending_responses, message_handler, fut, nCalls, nextReply,
                   nHist, nMut, dropped, history,
                   green, csv, LibVars, last>>

send_task_assignment(f, agent_id, task_id) ==
    SendMessage(f, "send_task_assignment", "task_assignment", agent_id, task_id)

send_challenge(f, agent_id, task_id) ==
    SendMessage(f, "send_challenge", "challenge", agent_id, task_id)

\* `await self.message_handler(message)` finishes; the message is returned.
handler_done(f) ==
    /\ pc[f] = "sending"
    /\ pc' = [pc EXCEPT ![f] = "idle"]
    /\ call' = [call EXCEPT ![f] = NoCall]
    /\ sent' = call[f].value
    /\ UNCHANGED <<message_log, pending_responses, message_handler, fut,
                   nCalls, nSent, nextReply, nHist, nMut, dropped, history,
                   green, csv, LibVars, last>>

\* `await self.message_handler(message)` raises: nothing catches it, the
\* exception leaves send_* and no message is returned.  sent then holds the
\* negated id of the message whose send raised.
handler_raises(f) ==
    /\ pc[f] = "sending"
    /\ pc' = [pc EXCEPT ![f] = "idle"]
    /\ call' = [call EXCEPT ![f] = NoCall]
    /\ sent' = 0 - call[f].value
    /\ UNCHANGED <<message_log, pending_responses, message_handler, fut,
                   nCalls, nSent, nextReply, nHist, nMut, dropped, history,
                   green, csv, LibVars, last>>

\* ------------------------------------------------ receive_task_response /
\* ------------------------------------------------ receive_rebuttal
\* How the wait that finished last ended, when it was a wait on key k.
PriorOutcome(k) ==
    IF last.key = k /\ last.outcome \in {"timeout", "cancelled"}
      THEN last.outcome ELSE "none"

\* Up to the first suspension: create the future, store it under the key
\* (whatever is there), enter asyncio.wait_for.  With timeout <= 0 wait_for
\* does not arm a timer: it cancels the pending future at once.
Receive(f, op, phase, agent_id, timeout_seconds) ==
    LET k == PhaseKey(phase, agent_id)
        others == {g \in Flows \ {f} : Blocked(g) /\ call[g].key = k}
    IN  /\ Free(f)
        /\ OpsSoFar < MaxOps
        /\ nCalls' = nCalls + 1
        /\ pending_responses' = [pending_responses EXCEPT ![k] = f]
        /\ IF timeout_seconds <= 0
             THEN /\ fut' = [fut EXCEPT ![f] = Cancelled]
                  /\ pc' = [pc EXCEPT ![f] = "unwindT"]
             ELSE /\ fut' = [fut EXCEPT ![f] = Pending]
                  /\ pc' = [pc EXCEPT ![f] = "waiting"]
        /\ call' = [g \in Flows |->
                     IF g = f THEN [NoCall EXCEPT !.op = op, !.key = k,
                                                  !.afterDrop = \E r \in Replies :
                                                      dropped[r] = [key |-> k, sending |-> TRUE],
                                                  !.overlap = (others # {}),
                                                  !.prior = PriorOutcome(k)]
                     ELSE IF g \in others THEN [call[g] EXCEPT !.overlap = TRUE]
                     ELSE call[g]]
        /\ UNCHANGED <<message_log, message_handler, nSent, nextReply, nHist,
                       nMut, dropped, history,
                   green, csv, LibVars, last, sent>>

receive_task_response(f, agent_id, timeout_seconds) ==
    Receive(f, "receive_task_response", "response", agent_id, timeout_seconds)

receive_rebuttal(f, agent_id, timeout_seconds) ==
    Receive(f, "receive_rebuttal", "rebuttal", agent_id, timeout_seconds)

\* The timer armed by asyncio.wait_for fires: the flow is woken up, its
\* future is not touched yet.
wait_for_timeout(f) ==
    /\ pc[f] = "waiting"
    /\ fut[f] = Pending
    /\ pc' = [pc EXCEPT ![f] = "timer"]
    /\ UNCHANGED <<message_log, pending_responses, message_handler, fut, call,
                   nCalls, nSent, nextReply, nHist, nMut, dropped, history,
                   green, csv, LibVars, last, sent>>

\* The task running the flow is cancelled (the surrounding run is aborted).
cancel(f) ==
    /\ pc[f] \in {"waiting", "timer", "unwindT"}
    /\ pc' = [pc EXCEPT ![f] = IF pc[f] = "unwindT" THEN "unwindC"
                                                     ELSE "cancelreq"]
    /\ UNCHANGED <<message_log, pending_responses, message_handler, fut, call,
                   nCalls, nSent, nextReply, nHist, nMut, dropped, history,
                   green, csv, LibVars, last, sent>>

\* `finally: self._pending_responses.pop(key, None)`
FinallyPop_Skipped(pending, k) == pending
FinallyPop(pending, k) == [pending EXCEPT ![k] = NoFlow]

\* The call ends: the finally clause runs and the flow gets its outcome.
Return_NoCleanupOnCancel(f, outcome, value) ==
    /\ pc' = [pc EXCEPT ![f] = "idle"]
    /\ pending_responses' = IF outcome = "cancelled"
                             THEN pending_responses
                             ELSE FinallyPop(pending_responses, call[f].key)
    /\ last' = [call[f] EXCEPT !.outcome = outcome, !.value = value]
    /\ call' = [call EXCEPT ![f] = NoCall]
    /\ fut' = [fut EXCEPT ![f] = Pending]
    /\ UNCHANGED <<message_log, message_handler, nCalls, nSent, nextReply,
                   nHist, nMut, dropped, history, green, csv, LibVars, sent>>

Return(f, outcome, value) ==
    /\ pc' = [pc EXCEPT ![f] = "idle"]
    /\ pending_responses' = FinallyPop(pending_responses, call[f].key)
    /\ last' = [call[f] EXCEPT !.outcome = outcome, !.value = value]
    /\ call' = [call EXCEPT ![f] = NoCall]
    /\ fut' = [fut EXCEPT ![f] = Pending]
    /\ UNCHANGED <<message_log, message_handler, nCalls, nSent, nextReply,
                   nHist, nMut, dropped, history, green, csv, LibVars, sent>>

\* The suspended flow runs again.
\*  - future resolved: `return response` (also when the timer or a
\*    cancellation raced with the delivery: wait_for returns fut.result());
\*  - timer fired / cancelled, future still pending: wait_for cancels the
\*    future and yields once more (_cancel_and_wait);
\*  - then TimeoutError is caught (`return None`) or CancelledError
\*    propagates; either way the finally clause pops the key.
wait_for_resume(f) ==
    \/ /\ pc[f] \in LivePcs
       /\ fut[f] \in Replies
       /\ Return(f, "reply", fut[f])
    \/ /\ pc[f] \in {"timer", "cancelreq"}
       /\ fut[f] = Pending
       /\ fut' = [fut EXCEPT ![f] = Cancelled]
       /\ pc' = [pc EXCEPT ![f] = IF pc[f] = "timer" THEN "unwindT"
                                                      ELSE "unwindC"]
       /\ UNCHANGED <<message_log, pending_responses, message_handler, call,
                      nCalls, nSent, nextReply, nHist, nMut, dropped, history,
                   green, csv, LibVars, last, sent>>
    \/ /\ pc[f] = "unwindT"
       /\ Return(f, "timeout", None)
    \/ /\ pc[f] = "unwindC"
       /\ Return(f, "cancelled", None)

\* ------------------------------------------------ deliver_response /
\* ------------------------------------------------ deliver_rebuttal
\* `if key in self._pending_responses: future = self._pending_responses[key]`
\* (NoFlow when the key is absent)
OtherPhaseKey(k) == <<IF k[1] = "response" THEN "rebuttal" ELSE "response", k[2]>>
LookupSlot_AnyPhase(pending, k) ==
    IF pending[k] # NoFlow THEN pending[k] ELSE pending[OtherPhaseKey(k)]
LookupSlot(pending, k) == pending[k]

\* `if not future.done(): future.set_result(reply)`
SetResult_NoDoneCheck(futs, g, reply) == [futs EXCEPT ![g] = reply]
SetResult_DoneCheckInverted(futs, g, reply) ==
    IF futs[g] # Pending THEN [futs EXCEPT ![g] = reply] ELSE futs
SetResult(futs, g, reply) ==
    IF futs[g] = Pending THEN [futs EXCEPT ![g] = reply] ELSE futs

\* A fresh reply object arrives from the transport side.
Deliver(phase, agent_id, reply) ==
    LET k == PhaseKey(phase, agent_id)
        g == LookupSlot(pending_responses, k)
        sending == \E h \in Flows : /\ pc[h] = "sending"
                                    /\ call[h].op = "send_task_assignment"
                                    /\ call[h].key = <<"send", agent_id>>
    IN  /\ reply = nextReply
        /\ OpsSoFar < MaxOps
        /\ nextReply' = nextReply + 1
        /\ fut' = IF g # NoFlow THEN SetResult(fut, g, reply) ELSE fut
        /\ dropped' = IF pending_responses[k] = NoFlow
                        THEN [dropped EXCEPT ![reply] =
                                [key |-> k, sending |-> sending]]
                        ELSE dropped
        /\ call' = [h \in Flows |->
                     IF pc[h] \in LivePcs /\ call[h].key = k
                       THEN [call[h] EXCEPT
                               !.first = IF call[h].first = None THEN reply
                                                                  ELSE call[h].first,
                               !.more = (call[h].first # None)]
                       ELSE call[h]]
        /\ UNCHANGED <<message_log, pending_responses, message_handler, pc,
                       nCalls, nSent, nHist, nMut, history, green, csv, LibVars, last, sent>>

deliver_response(agent_id, response) == Deliver("response", agent_id, response)

deliver_rebuttal(agent_id, rebuttal) == Deliver("rebuttal", agent_id, rebuttal)

\* ------------------------------------------------ get_message_history
RECURSIVE SelectSeq2(_, _, _)
\* [m for m in messages if keep(m)] with keep given as a set of messages
SelectSeq2(s, i, keep) ==
    IF i > Len(s) THEN <<>>
    ELSE IF s[i] \in keep THEN <<s[i]>> \o SelectSeq2(s, i + 1, keep)
    ELSE SelectSeq2(s, i + 1, keep)

Range(s) == {s[i] : i \in DOMAIN s}

\* Python truthiness of the two optional filters: None and "" are falsy.
Truthy(x) == x # "None" /\ x # ""
AgentFilters == Agents \cup {CioAgentId, "None", ""}
TypeFilters  == A2AMessageType \cup {"None"}

\* get_message_history keeping only the messages the agent sent
MessageHistory_SenderOnly(log, agent_id, message_type) ==
    LET m1 == IF Truthy(agent_id)
                THEN SelectSeq2(log, 1, {m \in Range(log) :
                         m.sender_id = agent_id})
                ELSE log
        m2 == IF Truthy(message_type)
                THEN SelectSeq2(m1, 1, {m \in Range(m1) :
                         m.message_type = message_type})
                ELSE m1
    IN  [alias |-> ~Truthy(agent_id) /\ ~Truthy(message_type),
         items |-> IF ~Truthy(agent_id) /\ ~Truthy(message_type)
                     THEN <<>> ELSE m2]

\* The value get_message_history returns: `alias` says that it is the very
\* list object self.message_log (no comprehension was run), otherwise it is
\* a new list holding `items`.
MessageHistory(log, agent_id, message_type) ==
    LET m1 == IF Truthy(agent_id)
                THEN SelectSeq2(log, 1, {m \in Range(log) :
                         m.sender_id = agent_id \/ m.receiver_id = agent_id})
                ELSE log
        m2 == IF Truthy(message_type)
                THEN SelectSeq2(m1, 1, {m \in Range(m1) :
                         m.message_type = message_type})
                ELSE m1
    IN  [alias |-> ~Truthy(agent_id) /\ ~Truthy(message_type),
         items |-> IF ~Truthy(agent_id) /\ ~Truthy(message_type)
                     THEN <<>> ELSE m2]

get_message_history(agent_id, message_type) ==
    /\ OpsSoFar < MaxOps
    /\ nHist' = nHist + 1
    /\ history' = MessageHistory(message_log, agent_id, message_type)
    /\ UNCHANGED <<message_log, pending_responses, message_handler, pc, fut,
                   call, nCalls, nSent, nextReply, nMut, dropped,
                   green, csv, LibVars, last, sent>>

\* The list the caller holds after get_message_history
Returned == IF history.alias THEN message_log ELSE history.items

Timeouts == {0, 1}

\* Agent ids are names the caller picks: the first agent a run talks to is
\* called "a1", the next new one "a2".
AgentNo(a) == IF a = "a1" THEN 1 ELSE 2
Nameable == {a \in Agents : AgentNo(a) <= named + 1}
Uses(a) == named' = IF AgentNo(a) > named THEN AgentNo(a) ELSE named
\* the run does not record the arguments of its calls
Unasked == UNCHANGED asked

Next ==
    \/ \E f \in Flows, a \in Nameable, t \in Tasks :
          send_task_assignment(f, a, t) /\ Uses(a) /\ Unasked
    \/ \E f \in Flows, a \in Nameable, t \in Tasks :
          send_challenge(f, a, t) /\ Uses(a) /\ Unasked
    \/ \E f \in Flows : handler_done(f) /\ UNCHANGED named /\ Unasked
    \/ \E f \in Flows, a \in Nameable, t \in Timeouts :
          receive_task_response(f, a, t) /\ Uses(a) /\ Unasked
    \/ \E f \in Flows, a \in Nameable, t \in Timeouts :
          receive_rebuttal(f, a, t) /\ Uses(a) /\ Unasked
    \/ \E f \in Flows : wait_for_timeout(f) /\ UNCHANGED named /\ Unasked
    \/ \E f \in Flows : cancel(f) /\ UNCHANGED named /\ Unasked
    \/ \E f \in Flows : wait_for_resume(f) /\ UNCHANGED named /\ Unasked
    \/ \E a \in Nameable : deliver_response(a, nextReply) /\ Uses(a) /\ Unasked
    \/ \E a \in Nameable : deliver_rebuttal(a, nextReply) /\ Uses(a) /\ Unasked
    \/ \E a \in AgentFilters, t \in TypeFilters :
          get_message_history(a, t) /\ UNCHANGED named /\ Unasked

Spec == Init /\ [][Next]_vars

\* ------------------------------------------------ a run that records the
\* ------------------------------------------------ arguments of its calls
Asks(op, agent_id, message_type) ==
    asked' = [op |-> op, agent_id |-> agent_id, message_type |-> message_type,
              task_id |-> "None"]

\* The sends and the history queries of a run, with waits pending meanwhile.
NextAsked ==
    \/ \E f \in Flows, a \in Nameable, t \in Tasks :
          /\ send_task_assignment(f, a, t) /\ Uses(a)
          /\ Asks("send_task_assignment", a, "None")
    \/ \E f \in Flows, a \in Nameable, t \in Tasks :
          /\ send_challenge(f, a, t) /\ Uses(a)
          /\ Asks("send_challenge", a, "None")
    \/ \E f \in Flows : handler_done(f) /\ UNCHANGED named /\ Unasked
    \/ \E f \in Flows, a \in Nameable :
          receive_task_response(f, a, 1) /\ Uses(a) /\ Unasked
    \/ \E f \in Flows, a \in Nameable :
          receive_rebuttal(f, a, 1) /\ Uses(a) /\ Unasked
    \/ \E f \in Flows : wait_for_timeout(f) /\ UNCHANGED named /\ Unasked
    \/ \E f \in Flows : wait_for_resume(f) /\ UNCHANGED named /\ Unasked
    \/ \E a \in AgentFilters, t \in TypeFilters :
          /\ get_message_history(a, t) /\ UNCHANGED named
          /\ Asks("get_message_history", a, t)

SpecAsked == Init /\ [][NextAsked]_vars

\* The waits and the deliveries of a run, for two agents.
NextDeliver ==
    \/ \E f \in Flows, a \in Nameable :
          /\ receive_task_response(f, a, 1) /\ Uses(a)
          /\ Asks("receive_task_response", a, "None")
    \/ \E f \in Flows, a \in Nameable :
          /\ receive_rebuttal(f, a, 1) /\ Uses(a)
          /\ Asks("receive_rebuttal", a, "None")
    \/ \E f \in Flows : wait_for_timeout(f) /\ UNCHANGED named /\ Unasked
    \/ \E f \in Flows : cancel(f) /\ UNCHANGED named /\ Unasked
    \/ \E f \in Flows : wait_for_resume(f) /\ UNCHANGED named /\ Unasked
    \/ \E a \in Nameable :
          /\ deliver_response(a, nextReply) /\ Uses(a)
          /\ Asks("deliver_response", a, "None")
    \/ \E a \in Nameable :
          /\ deliver_rebuttal(a, nextReply) /\ Uses(a)
          /\ Asks("deliver_rebuttal", a, "None")

SpecDeliver == Init /\ [][NextDeliver]_vars

\* The sends, waits and deliveries of a run with one agent and two tasks,
\* with a message handler that may raise; a delivered AgentResponse carries the task_id of the task it
\* answers, which the run records.
NextLate ==
    \/ \E f \in Flows, t \in {"t1", "t2"} :
          send_task_assignment(f, "a1", t) /\ Uses("a1") /\ Unasked
    \/ \E f \in Flows, t \in {"t1", "t2"} :
          send_challenge(f, "a1", t) /\ Uses("a1") /\ Unasked
    \/ \E f \in Flows : handler_done(f) /\ UNCHANGED named /\ Unasked
    \/ \E f \in Flows : handler_raises(f) /\ UNCHANGED named /\ Unasked
    \/ \E f \in Flows :
          receive_task_response(f, "a1", 1) /\ Uses("a1") /\ Unasked
    \/ \E f \in Flows : wait_for_timeout(f) /\ UNCHANGED named /\ Unasked
    \/ \E f \in Flows : wait_for_resume(f) /\ UNCHANGED named /\ Unasked
    \/ \E t \in {"t1", "t2"} :
          /\ deliver_response("a1", nextReply) /\ Uses("a1")
          /\ asked' = [op |-> "deliver_response", agent_id |-> "a1",
                       message_type |-> "None", task_id |-> t]

SpecLate == Init /\ [][NextLate]_vars

\* ------------------------------------------------ a caller editing the
\* ------------------------------------------------ returned list in place
\* A message object that did not come from the orchestrator
ForeignMessage ==
    [id |-> 0, message_type |-> "response", sender_id |-> "a1",
     receiver_id |-> CioAgentId, task_id |-> "t1"]

\* list.append(x) / list.pop() / list[0] = x
ListEdit(l, edit) ==
    IF edit = "append" THEN Append(l, ForeignMessage)
    ELSE IF edit = "pop" THEN SubSeq(l, 1, Len(l) - 1)
    ELSE [l EXCEPT ![1] = ForeignMessage]
ListEdits == {"append", "pop", "replace"}

\* The caller of get_message_history edits the list it was given.  When that
\* list is self.message_log itself the edit is an edit of the audit log.
caller_edits_history(edit) ==
    /\ nHist > 0
    /\ OpsSoFar < MaxOps
    /\ edit = "append" \/ Len(Returned) > 0
    /\ nMut' = nMut + 1
    /\ IF history.alias
         THEN /\ message_log' = ListEdit(message_log, edit)
              /\ history' = history
         ELSE /\ history' = [history EXCEPT !.items = ListEdit(history.items, edit)]
              /\ message_log' = message_log
    /\ UNCHANGED <<pending_responses, message_handler, pc, fut, call, nCalls,
                   nSent, nextReply, nHist, dropped,
                   green, csv, LibVars, last, sent>>

\* ------------------------------------------------ GreenAgent.run
\* (src/src/cio_agent/green_agent.py).  GreenAgent talks to the purple agent
\* through Messenger.talk_to_agent, not through the orchestrator above.
MaxTasks == 2       \* tasks of one assessment

OrchVars == <<message_log, pending_responses, message_handler, pc, fut, call, last,
              nCalls, nSent, nextReply, nHist, nMut, dropped, history, named,
              sent, asked>>

ExplicitTimeout == 300
DefaultTimeout  == 0 - 1     \* `timeout` not passed by the caller

\* `await self.messenger.talk_to_agent(..., timeout=timeout)`.  outcomes: how
\* the awaited call can end: with the agent's reply, with a reply the model
\* class built from it rejects ("malformed"), or by raising (a timeout of
\* the request, a transport failure).  bounded: the caller passed a timeout,
\* so the call ends, at the latest when that timeout has elapsed; run() puts
\* no bound of its own (no asyncio.wait_for) on a call it passes no timeout
\* to, which then may never end.
talk_to_agent(timeout) ==
    [outcomes |-> {"reply", "malformed", "timeout", "error"},
     bounded |-> timeout # DefaultTimeout]

\* DebateResult.conviction_level of a judged rebuttal, lowest tier first
ConvictionLevels == {"weak", "moderate", "strong", "unshaken"}
\* the multiplier table: a function of the conviction level alone
Multiplier(conviction_level) ==
    CASE conviction_level = "weak" -> "multiplier of weak"
      [] conviction_level = "moderate" -> "multiplier of moderate"
      [] conviction_level = "strong" -> "multiplier of strong"
      [] conviction_level = "unshaken" -> "multiplier of unshaken"
NeutralMultiplier == "1.0"

\* DebateResult of ComprehensiveEvaluator: without a rebuttal the debate was
\* not run and the result is the neutral one; with a rebuttal the judge picks
\* a conviction level and the table gives the multiplier.
DebateResults(debate_run) ==
    IF debate_run
      THEN {[debate_multiplier |-> Multiplier(c), conviction_level |-> c] :
                c \in ConvictionLevels}
      ELSE {[debate_multiplier |-> NeutralMultiplier,
             conviction_level |-> "not evaluated"]}

\* result.alpha_score.score: the alpha scores an evaluation can give, as
\* Python prints them.  They are multiples of 1/16, which a float holds
\* exactly, so that their sums are exact too.
AlphaScores == {"1.5", "0.125"}

\* what `await self.evaluator.evaluate_response(task, agent_response,
\* agent_rebuttal)` can return: agent_rebuttal is None iff no DebateRebuttal
\* was built for the task
evaluate_response(agent_response, agent_rebuttal) ==
    {[alpha_score |-> a, role_score |-> "total", debate_result |-> d] :
        a \in AlphaScores, d \in DebateResults(agent_rebuttal > 0)}

\* all_results.append({...}) of an evaluated task: lines 234-239
ResultEntry(task, result) ==
    [task_id |-> task.question_id, alpha_score |-> result.alpha_score,
     role_score |-> result.role_score,
     debate_multiplier |-> result.debate_result.debate_multiplier,
     error |-> Absent]

\* all_results.append({...}) of the except branch: lines 241-246
ErrorEntry(task, e) ==
    [task_id |-> task.question_id, alpha_score |-> "0.0", role_score |-> Absent,
     debate_multiplier |-> Absent, error |-> e]

StartTask_SendsAhead(g, i) ==
    [g EXCEPT !.pc = "task_call", !.i = i,
              !.trace = [k \in 1..Len(g.trace) |->
                           IF k \in {i, i + 1} /\ g.trace[k].task_messages = 0
                             THEN [g.trace[k] EXCEPT !.task_messages = 1]
                             ELSE g.trace[k]]]

\* after `await updater.update_status` of task i: the task message is built
\* and sent (lines 176-190)
StartTask(g, i) ==
    [g EXCEPT !.pc = "task_call", !.i = i, !.trace[i].task_messages = @ + 1]

\* the for loop's header for task i, up to `await updater.update_status`
\* (lines 170-174)
NextTask(g, i) == [g EXCEPT !.pc = "task_status", !.i = i]

\* GreenAgent.required_roles and the roles a request can name
required_roles == {"purple_agent"}
Roles == {"purple_agent", "judge"}

\* validate_request: no required role is missing (required_config_keys is
\* empty)
validate_request(request) == required_roles \ request.participants = {}

\* the assessment requests: text that EvalRequest.model_validate_json
\* accepts or not, and the roles its participants name
Requests == [parsable : BOOLEAN, participants : SUBSET Roles]

\* does run() get past lines 92-100 with this request
Accepted(request) == request.parsable /\ validate_request(request)

\* run() for a request that is not valid: model_validate_json raises
\* ValidationError, or validate_request says no; reject is called and run
\* returns (lines 89-100)
run_rejects_GoesOn(request) ==
    /\ green.pc = "idle"
    /\ ~Accepted(request)
    /\ green' = StartTask(
           [green EXCEPT !.updater.reject = @ + 1,
                         !.valid_request = FALSE,
                         !.updater.working = TRUE,
                         !.num_tasks = 1,
                         !.tasks = <<[question_id |-> 1, ticker |-> green.ticker]>>,
                         !.trace = <<NoTrace>>], 1)
    /\ UNCHANGED <<OrchVars, csv, LibVars>>
run_rejects(request) ==
    /\ green.pc = "idle"
    /\ ~Accepted(request)
    /\ green' = [green EXCEPT !.pc = "rejected", !.valid_request = FALSE,
                              !.updater.reject = @ + 1]
    /\ UNCHANGED <<OrchVars, csv, LibVars>>

\* the subjects a request's config and a task can name
Tickers == {"NVDA", "AAPL"}

\* Python's seq[:n] for an integer n
SliceTo(seq, n) ==
    SubSeq(seq, 1, IF n >= 0 THEN (IF n < Len(seq) THEN n ELSE Len(seq))
                             ELSE (IF Len(seq) + n > 0 THEN Len(seq) + n ELSE 0))

\* request.config.get("simulation_date"): not given, an ISO date, or a
\* string datetime.fromisoformat rejects
SimulationDateStrs == {Absent, "2025-11-20", "not a date"}

\* what generate_task_batch(count, simulation_date) does when it is called:
\* it returns `count` tasks dated simulation_date, returns no task, or raises
GeneratorOutcomes == {"tasks", "empty", "raises"}

\* `count` tasks of a source, with the tickers and the date the source gives
\* them
SourceTasks(count, task_tickers, simulation_date) ==
    [k \in 1..count |->
        [question_id |-> k, ticker |-> task_tickers[k],
         simulation_date |-> simulation_date, default |-> FALSE]]

\* the task of lines 148-166: datetime.now() is "now", the question_id
\* f"fab_{ticker}_eval" is 0
DefaultTask(ticker) ==
    [question_id |-> 0, ticker |-> ticker, simulation_date |-> "now",
     default |-> TRUE]

\* `tasks = ...` of lines 132 and 138: what the source yielded
WithTasks(g, tasks) ==
    [g EXCEPT !.yielded = tasks, !.tasks = tasks, !.num_tasks = Len(tasks),
              !.trace = [k \in 1..Len(tasks) |-> NoTrace]]

\* `if not tasks:` (lines 143-166), `all_results = []` and the loop's header
\* for the first task
EnterLoop(g) ==
    LET tasks == IF g.tasks = <<>> THEN <<DefaultTask(g.ticker)>> ELSE g.tasks
    IN  NextTask([g EXCEPT !.tasks = tasks, !.num_tasks = Len(tasks),
                           !.trace = [k \in 1..Len(tasks) |-> NoTrace]], 1)

\* `except Exception as e:` of the outer try, up to its
\* `await updater.update_status(TaskState.failed, ...)` (lines 273-277)
RunFails(g) == [g EXCEPT !.pc = "failing", !.updater.failed = @ + 1]

\* run() up to `await updater.update_status` of line 110: the request is
\* valid and the config is read (lines 89-113).  synthetic_questions is what
\* the agent was built with.
run_start(request, num_tasks, conduct_debate, ticker, synthetic_questions) ==
    /\ green.pc = "idle"
    /\ Accepted(request)
    /\ green' = [green EXCEPT !.pc = "starting",
                              !.count = num_tasks,
                              !.conduct_debate = conduct_debate,
                              !.ticker = ticker,
                              !.synthetic_questions = synthetic_questions,
                              !.updater.working = TRUE]
    /\ UNCHANGED <<OrchVars, csv, LibVars>>

\* from the wait of line 110 to `await updater.update_status` of line 117
starting_ends ==
    /\ green.pc = "starting"
    /\ green' = [green EXCEPT !.pc = "generating"]
    /\ UNCHANGED <<OrchVars, csv, LibVars>>

\* from the wait of line 117: the simulation date is read and parsed, then
\* the synthetic questions are converted (their tasks are dated
\* datetime.now()) up to `await updater.update_status` of line 133, or the
\* generator is called (lines 121-141)
generating_ends(simulation_date_str, task_tickers) ==
    /\ green.pc = "generating"
    /\ LET g == [green EXCEPT !.simulation_date = simulation_date_str]
           questions_to_use ==
               SliceTo([k \in 1..green.synthetic_questions |-> k], green.count)
       IN  green' =
             IF simulation_date_str = "not a date" THEN RunFails(g)
             ELSE IF green.synthetic_questions > 0
               THEN [WithTasks(g, SourceTasks(Len(questions_to_use),
                                              task_tickers, "now"))
                       EXCEPT !.pc = "using"]
               ELSE [g EXCEPT !.pc = "generate", !.generator_calls = @ + 1]
    /\ UNCHANGED <<OrchVars, csv, LibVars>>

\* from the wait of line 133 to the loop's first
\* `await updater.update_status` (line 171)
using_ends ==
    /\ green.pc = "using"
    /\ green' = EnterLoop(green)
    /\ UNCHANGED <<OrchVars, csv, LibVars>>

\* `tasks = await self.task_generator.generate_task_batch(...)` ends
\* (lines 138-141), then as above
generate_task_batch_ends(outcome, task_tickers) ==
    /\ green.pc = "generate"
    /\ outcome \in GeneratorOutcomes
    /\ LET simulation_date == IF green.simulation_date = Absent
                                THEN "now" ELSE green.simulation_date
           count == IF outcome = "tasks" THEN green.count ELSE 0
       IN  green' =
             IF outcome = "raises" THEN RunFails(green)
             ELSE EnterLoop(WithTasks(green, SourceTasks(count, task_tickers,
                                                         simulation_date)))
    /\ UNCHANGED <<OrchVars, csv, LibVars>>

\* from the wait of line 171: the task message of task i is sent
task_status_ends ==
    /\ green.pc = "task_status"
    /\ green' = StartTask(green, green.i)
    /\ UNCHANGED <<OrchVars, csv, LibVars>>

\* from the wait of line 274: `raise` (line 278)
run_reraises ==
    /\ green.pc = "failing"
    /\ green' = [green EXCEPT !.pc = "failed", !.reraised = TRUE]
    /\ UNCHANGED <<OrchVars, csv, LibVars>>

\* after the outcome of task i was appended to all_results: the loop goes on
\* with the next task, or ends
AfterTask_Prepends(g, entry) ==
    LET h == [g EXCEPT !.all_results = <<entry>> \o @]
    IN  IF g.i < g.num_tasks THEN NextTask(h, g.i + 1)
                             ELSE [h EXCEPT !.pc = "report"]
AfterTask(g, entry) ==
    LET h == [g EXCEPT !.all_results = Append(@, entry)]
    IN  IF g.i < g.num_tasks THEN NextTask(h, g.i + 1)
                             ELSE [h EXCEPT !.pc = "report"]

\* `except Exception as e:` of the per-task try
Raised_Aborts(g, e) ==
    [g EXCEPT !.trace[g.i].raised = TRUE,
              !.all_results = Append(@, ErrorEntry(g.tasks[g.i], e)),
              !.pc = "report"]
Raised_FailsRun(g, e) == RunFails([g EXCEPT !.trace[g.i].raised = TRUE])
Raised(g, e) ==
    AfterTask([g EXCEPT !.trace[g.i].raised = TRUE], ErrorEntry(g.tasks[g.i], e))

\* `response = await self.messenger.talk_to_agent(..., timeout=300)` ends;
\* with a reply, AgentResponse is built and run goes on to
\* `await updater.update_status` of the debate if conduct_debate, to
\* evaluate_response if not (lines 185-211, 228)
task_call_ends_SkipsChallenge(outcome) ==
    /\ green.pc = "task_call"
    /\ outcome \in talk_to_agent(ExplicitTimeout).outcomes
    /\ green' =
         IF outcome = "reply"
           THEN [green EXCEPT !.pc = "evaluate",
                              !.trace[green.i].agent_response = @ + 1]
           ELSE Raised(green, outcome)
    /\ UNCHANGED <<OrchVars, csv, LibVars>>
task_call_ends_AlwaysDebates(outcome) ==
    /\ green.pc = "task_call"
    /\ outcome \in talk_to_agent(ExplicitTimeout).outcomes
    /\ green' =
         IF outcome = "reply"
           THEN [green EXCEPT !.pc = "debate_status",
                              !.trace[green.i].agent_response = @ + 1]
           ELSE Raised(green, outcome)
    /\ UNCHANGED <<OrchVars, csv, LibVars>>
task_call_ends(outcome) ==
    /\ green.pc = "task_call"
    /\ outcome \in talk_to_agent(ExplicitTimeout).outcomes
    /\ green' =
         IF outcome = "reply"
           THEN IF green.conduct_debate
                  THEN [green EXCEPT !.pc = "debate_status",
                                     !.trace[green.i].agent_response = @ + 1]
                  ELSE [green EXCEPT !.pc = "evaluate",
                                     !.trace[green.i].agent_response = @ + 1]
           ELSE Raised(green, outcome)
    /\ UNCHANGED <<OrchVars, csv, LibVars>>

\* from the wait of line 208: the challenge is built and sent
\* (lines 213-218)
debate_status_ends ==
    /\ green.pc = "debate_status"
    /\ green' = [green EXCEPT !.pc = "challenge_call",
                              !.trace[green.i].challenges = @ + 1,
                              !.trace[green.i].counter_arg = green.ticker,
                              !.trace[green.i].debate = "ChallengeSent"]
    /\ UNCHANGED <<OrchVars, csv, LibVars>>

\* `rebuttal_response = await self.messenger.talk_to_agent(...)` ends; with a
\* reply, DebateRebuttal is built (lines 214-225)
challenge_call_ends_DropsRebuttal(outcome) ==
    /\ green.pc = "challenge_call"
    /\ outcome \in talk_to_agent(DefaultTimeout).outcomes
    /\ green' =
         CASE outcome = "reply" ->
                [green EXCEPT !.pc = "evaluate",
                              !.trace[green.i].debate = "RebuttalReceived"]
           [] outcome = "malformed" ->
                Raised([green EXCEPT !.trace[green.i].debate = "RebuttalReceived"],
                       outcome)
           [] outcome = "timeout" ->
                Raised([green EXCEPT !.trace[green.i].debate = "RebuttalTimedOut"],
                       outcome)
           [] OTHER -> Raised(green, outcome)
    /\ UNCHANGED <<OrchVars, csv, LibVars>>
challenge_call_ends(outcome) ==
    /\ green.pc = "challenge_call"
    /\ outcome \in talk_to_agent(DefaultTimeout).outcomes
    /\ green' =
         CASE outcome = "reply" ->
                [green EXCEPT !.pc = "evaluate",
                              !.trace[green.i].agent_rebuttal = @ + 1,
                              !.trace[green.i].debate = "RebuttalReceived"]
           [] outcome = "malformed" ->
                Raised([green EXCEPT !.trace[green.i].debate = "RebuttalReceived"],
                       outcome)
           [] outcome = "timeout" ->
                Raised([green EXCEPT !.trace[green.i].debate = "RebuttalTimedOut"],
                       outcome)
           [] OTHER -> Raised(green, outcome)
    /\ UNCHANGED <<OrchVars, csv, LibVars>>

\* `await self.evaluator.evaluate_response(...)` returns a result, which is
\* appended to all_results, or raises (lines 228-239)
evaluate_response_ends(ok, result) ==
    /\ green.pc = "evaluate"
    /\ result \in evaluate_response(green.trace[green.i].agent_response,
                                    green.trace[green.i].agent_rebuttal)
    /\ green' =
         IF ok
           THEN AfterTask([green EXCEPT !.trace[green.i].graded = TRUE,
                                        !.trace[green.i].debate = "Scored",
                                        !.trace[green.i].debate_result =
                                            result.debate_result],
                          ResultEntry(green.tasks[green.i], result))
           ELSE Raised(green, "evaluator")
    /\ UNCHANGED <<OrchVars, csv, LibVars>>

\* an alpha score in sixteenths
Sixteenths(alpha_score) ==
    CASE alpha_score = "1.5" -> 24
      [] alpha_score = "0.125" -> 2
      [] alpha_score = "0.0" -> 0

\* sum(r["alpha_score"] for r in results), in sixteenths: exact in floats
RECURSIVE SumAlpha(_)
SumAlpha(results) ==
    IF results = <<>> THEN 0
    ELSE Sixteenths(Head(results).alpha_score) + SumAlpha(Tail(results))

\* 2^e modulo d
RECURSIVE Pow2Mod(_, _)
Pow2Mod(e, d) == IF e = 0 THEN 1 % d ELSE (2 * Pow2Mod(e - 1, d)) % d

\* floor(log2(n / d)) for positive n and d
RECURSIVE Log2Floor(_, _)
Log2Floor(n, d) ==
    IF n >= 2 * d THEN 1 + Log2Floor(n, 2 * d)
    ELSE IF n < d THEN Log2Floor(2 * n, d) - 1
    ELSE 0

\* round(total / count, 2) in hundredths, for a total in sixteenths.  The
\* quotient is a float, the nearest one to total / (16 * count), with 53
\* significant bits; round() gives the hundredth nearest to that float, and
\* the even one when the float is midway.  The float decides only when the
\* exact mean is midway, (2q + 1) / 200: `frac` is what the 53 bits leave out
\* of it, in 200ths of the last bit.
Round2(total, count) ==
    LET num == 25 * total
        den == 4 * count
        q == num \div den
        r == num % den
        e == 52 - Log2Floor(2 * q + 1, 200)
        frac == ((2 * q + 1) * Pow2Mod(e, 200)) % 200
    IN  IF 2 * r > den THEN q + 1
        ELSE IF 2 * r < den THEN q
        ELSE IF frac = 0 THEN (IF q % 2 = 1 THEN q + 1 ELSE q)
        ELSE IF 2 * frac > 200 THEN q + 1 ELSE q

run_reports_CountsErrors ==
    /\ green.pc = "report"
    /\ LET valid_results == SelectSeq(green.all_results,
                                      LAMBDA r : r.error = Absent)
       IN  green' = [green EXCEPT
              !.pc = "done",
              !.assessment_result =
                  [num_tasks |-> Len(green.tasks),
                   num_successful |-> Len(valid_results),
                   average_alpha_score |->
                       IF green.all_results # <<>>
                         THEN Round2(SumAlpha(green.all_results),
                                     Len(green.all_results))
                         ELSE 0],
              !.updater.artifacts = @ + 1]
    /\ UNCHANGED <<OrchVars, csv, LibVars>>

\* aggregate metrics, assessment_result and add_artifact (lines 248-271);
\* average_alpha_score is in hundredths
run_reports ==
    /\ green.pc = "report"
    /\ LET valid_results == SelectSeq(green.all_results,
                                      LAMBDA r : r.error = Absent)
       IN  green' = [green EXCEPT
              !.pc = "done",
              !.assessment_result =
                  [num_tasks |-> Len(green.tasks),
                   num_successful |-> Len(valid_results),
                   average_alpha_score |->
                       IF valid_results # <<>>
                         THEN Round2(SumAlpha(valid_results), Len(valid_results))
                         ELSE 0],
              !.updater.artifacts = @ + 1]
    /\ UNCHANGED <<OrchVars, csv, LibVars>>

TalkOutcomes == {"reply", "malformed", "timeout", "error"}
EvaluationResults == evaluate_response(1, 0) \cup evaluate_response(1, 1)

GreenNext ==
    \/ \E r \in Requests : run_rejects(r)
    \/ /\ green.pc = "idle"
       /\ \E n \in 0..MaxTasks, d \in BOOLEAN, t \in Tickers,
             sq \in 0..MaxTasks :
             \E r \in Requests : run_start(r, n, d, t, sq)
    \/ starting_ends
    \/ /\ green.pc = "generating"
       /\ \E sd \in SimulationDateStrs, tt \in [1..MaxTasks -> Tickers] :
             generating_ends(sd, tt)
    \/ using_ends
    \/ /\ green.pc = "generate"
       /\ \E o \in GeneratorOutcomes, tt \in [1..MaxTasks -> Tickers] :
             generate_task_batch_ends(o, tt)
    \/ task_status_ends
    \/ \E o \in TalkOutcomes : task_call_ends(o)
    \/ debate_status_ends
    \/ \E o \in TalkOutcomes : challenge_call_ends(o)
    \/ \E ok \in BOOLEAN, r \in EvaluationResults : evaluate_response_ends(ok, r)
    \/ run_reports
    \/ run_reraises

\* ------------------------------------------------ main of
\* ------------------------------------------------ scripts/run_csv_eval.py
RunVars == <<OrchVars, green, LibVars>>

\* what `evaluator.run_full_evaluation(task, agent_client, conduct_debate)`
\* can return
run_full_evaluation(conduct_debate) ==
    {[alpha_score |-> a, role_score |-> "total", debate_result |-> d] :
        a \in AlphaScores, d \in DebateResults(conduct_debate)}

\* results.append({...}) of an evaluated template: lines 159-171
CsvResultEntry(template_id, eval_result) ==
    [template_id |-> template_id, alpha_score |-> eval_result.alpha_score,
     role_score |-> eval_result.role_score,
     debate_multiplier |-> eval_result.debate_result.debate_multiplier,
     error |-> "None"]

\* results.append({"template_id": ..., "error": ...}): lines 141 and 173
CsvErrorEntry(template_id, e) ==
    [template_id |-> template_id, alpha_score |-> Absent, role_score |-> Absent,
     debate_multiplier |-> Absent, error |-> e]

\* main() up to the loop over the templates (there may be none)
main_start(templates, no_debate) ==
    /\ csv.pc = "idle"
    /\ csv' = [csv EXCEPT !.pc = IF templates > 0 THEN "template" ELSE "summary",
                          !.templates = templates, !.no_debate = no_debate,
                          !.i = 1]
    /\ UNCHANGED RunVars

\* the loop goes on with the next template, or ends
AfterTemplate(c, entry) ==
    [c EXCEPT !.results = Append(@, entry),
              !.pc = IF c.i < c.templates THEN "template" ELSE "summary",
              !.i = c.i + 1]

\* one pass of `for tpl in templates:`: no task was generated, a call raised,
\* or the evaluation returned (lines 137-173)
template_ends(outcome, eval_result) ==
    /\ csv.pc = "template"
    /\ eval_result \in run_full_evaluation(~csv.no_debate)
    /\ csv' =
         CASE outcome = "evaluated" ->
                AfterTemplate(csv, CsvResultEntry(csv.i, eval_result))
           [] outcome = "no_task" ->
                AfterTemplate([csv EXCEPT !.failed = @ \cup {csv.i}],
                              CsvErrorEntry(csv.i, "task_generation_failed"))
           [] outcome = "raised" ->
                AfterTemplate([csv EXCEPT !.failed = @ \cup {csv.i}],
                              CsvErrorEntry(csv.i, "raised"))
    /\ UNCHANGED RunVars

\* summary and output file
main_writes ==
    /\ csv.pc = "summary"
    /\ csv' = [csv EXCEPT !.pc = "done"]
    /\ UNCHANGED RunVars

TemplateOutcomes == {"evaluated", "no_task", "raised"}
FullEvaluationResults == run_full_evaluation(TRUE) \cup run_full_evaluation(FALSE)

CsvNext ==
    \/ \E n \in 0..MaxTasks, d \in BOOLEAN : main_start(n, d)
    \/ \E o \in TemplateOutcomes, r \in FullEvaluationResults : template_ends(o, r)
    \/ main_writes

\* GreenAgent.run and run_csv_eval's main are separate programs: a behaviour
\* exercises one of them.
NextRuns ==
    \/ csv = CsvInit /\ GreenNext
    \/ green = GreenInit /\ CsvNext

SpecRuns == Init /\ [][NextRuns]_vars

\* ------------------------------------------------ GreenAgent.
\* ------------------------------------------------ _convert_synthetic_to_tasks
MaxQuestions == 2       \* synthetic questions given to GreenAgent

\* the values of the enums TaskCategory and TaskDifficulty
TaskCategories == {"Quantitative Retrieval", "Qualitative Retrieval", "beat_or_miss"}
TaskDifficulties == {"easy", "medium", "hard"}

\* Enum(value): the member with that value, or ValueError
EnumMember(members, value) == IF value \in members THEN value ELSE "ValueError"

\* `value = sq.get(key, default)`, then `try: Enum(value) except ValueError:
\* fallback` (lines 311-323)
WithFallback_NoExcept(members, value, default, fallback) ==
    EnumMember(members, IF value = Absent THEN default ELSE value)
WithFallback(members, value, default, fallback) ==
    LET v == IF value = Absent THEN default ELSE value
    IN  IF EnumMember(members, v) = "ValueError" THEN fallback
                                                 ELSE EnumMember(members, v)

\* the synthetic question dicts: a key may be missing, a value may be one no
\* enum member has
SyntheticQuestion ==
    [question_id : {"SYN_QUAN_0001", Absent},
     category : {"Quantitative Retrieval", "Qualitative Retrieval",
                 "Invalid Category", Absent},
     difficulty : {"easy", "impossible", Absent}]

_convert_synthetic_to_tasks(synthetic_questions, num_tasks) ==
    LET questions_to_use == SliceTo(synthetic_questions, num_tasks)
    IN  [k \in 1..Len(questions_to_use) |->
            LET sq == questions_to_use[k]
            IN  [question_id |-> IF sq.question_id = Absent THEN <<"SYN", k - 1>>
                                                            ELSE <<sq.question_id>>,
                 category |-> WithFallback(TaskCategories, sq.category,
                                  "Quantitative Retrieval", "Quantitative Retrieval"),
                 difficulty |-> WithFallback(TaskDifficulties, sq.difficulty,
                                  "medium", "medium")]]

\* one call of _convert_synthetic_to_tasks
convert(synthetic_questions, num_tasks) ==
    /\ ~conv.called
    /\ conv' = [called |-> TRUE, synthetic_questions |-> synthetic_questions,
                num_tasks |-> num_tasks,
                tasks |-> _convert_synthetic_to_tasks(synthetic_questions, num_tasks)]
    /\ UNCHANGED <<OrchVars, green, csv, alpha, guard, tracker, llm>>

\* ------------------------------------------------ the scoring engine's
\* ------------------------------------------------ alpha score
\* Numbers are fixed-point: multiplier and penalty in tenths, cost in cents,
\* logarithms in 1/100; a score is the fraction num/den.
\* ln(1 + cost) for the costs that are exercised
Ln1p(cost) == CASE cost = 1 -> 1 [] cost = 5 -> 5 [] cost = 100 -> 69

\* alpha = (roleScore * multiplier) / (ln(1 + cost) * (1 + penalty)); a cost
\* of zero is scored at the floor cost of one cent, a negative cost is an
\* InvalidCost error
AlphaScore_PenaltyRewards(role_score, debate_multiplier, cost, lookahead_penalty) ==
    IF cost < 0 THEN [error |-> "InvalidCost", num |-> 0, den |-> 0]
    ELSE [error |-> "none",
          num |-> role_score * debate_multiplier * (10 + lookahead_penalty),
          den |-> Ln1p(IF cost = 0 THEN 1 ELSE cost)]
AlphaScore_NoFloor(role_score, debate_multiplier, cost, lookahead_penalty) ==
    [error |-> "none",
     num |-> role_score * debate_multiplier * 100,
     den |-> (IF cost <= 0 THEN 0 ELSE Ln1p(cost)) * (10 + lookahead_penalty)]
AlphaScore(role_score, debate_multiplier, cost, lookahead_penalty) ==
    IF cost < 0 THEN [error |-> "InvalidCost", num |-> 0, den |-> 0]
    ELSE [error |-> "none",
          num |-> role_score * debate_multiplier * 100,
          den |-> Ln1p(IF cost = 0 THEN 1 ELSE cost) * (10 + lookahead_penalty)]

\* the inputs that are exercised: role score, multiplier, cost, penalty
AlphaInputs == {0, 40, 80} \X {5, 10, 11} \X {0 - 1, 0, 1, 5, 100} \X {0, 2, 5}

\* the engine computes one alpha score
compute_alpha(in) ==
    /\ ~alpha.called
    /\ alpha' = [called |-> TRUE, in |-> in,
                 score |-> AlphaScore(in[1], in[2], in[3], in[4])]
    /\ UNCHANGED <<OrchVars, green, csv, conv, guard, tracker, llm>>

\* ------------------------------------------------ Lookahead Guard
\* Dates are day numbers; a fact's effective date may be unknown.  The
\* penalty is in tenths, the unit AlphaScore takes it in.
MaxCites == 3           \* citations in one response

CitedFacts ==
    {[id |-> i, known |-> TRUE, date |-> d] :
        i \in {"revenue", "guidance"}, d \in 1..3}
    \cup {[id |-> i, known |-> FALSE, date |-> 0] :
             i \in {"revenue", "guidance"}}

Violation(fact, simulation_date) ==
    [fact |-> fact.id, effective_date |-> fact.date,
     simulation_date |-> simulation_date]

RECURSIVE Violations_NoDedup(_, _, _)
Violations_NoDedup(cited, simulation_date, found) ==
    IF cited = <<>> THEN found
    ELSE LET fact == Head(cited)
             v == Violation(fact, simulation_date)
         IN  Violations_NoDedup(Tail(cited), simulation_date,
                IF fact.known /\ fact.date > simulation_date
                THEN Append(found, v)
                ELSE found)

\* every cited fact in order: flagged when its date is known and strictly
\* after the simulation date, once per fact
RECURSIVE Violations(_, _, _)
Violations(cited, simulation_date, found) ==
    IF cited = <<>> THEN found
    ELSE LET fact == Head(cited)
             v == Violation(fact, simulation_date)
         IN  Violations(Tail(cited), simulation_date,
                IF /\ fact.known
                   /\ fact.date > simulation_date
                   /\ \A k \in 1..Len(found) : found[k] # v
                THEN Append(found, v)
                ELSE found)

\* a fixed increment per violation, capped
PenaltyTerm(count) == IF 2 * count > 5 THEN 5 ELSE 2 * count

\* the guard scans one response
scan(cited, simulation_date) ==
    /\ ~guard.called
    /\ LET violations == Violations(cited, simulation_date, <<>>)
       IN  guard' = [called |-> TRUE, cited |-> cited,
                     simulation_date |-> simulation_date,
                     violations |-> violations,
                     penalty |-> PenaltyTerm(Len(violations))]
    /\ UNCHANGED <<OrchVars, green, csv, conv, alpha, tracker, llm>>

\* ------------------------------------------------ Cost Tracker
\* Costs are in cents.  The phases of one evaluation run concurrently and
\* each records the cost of its calls; one record is one atomic step.
MaxRecords == 3         \* calls recorded in one evaluation

DimensionScorers == {"macro", "fundamental", "execution"}

RECURSIVE SumCosts(_)
SumCosts(calls) ==
    IF calls = <<>> THEN 0 ELSE Head(calls).cost + SumCosts(Tail(calls))

record_LosesUpdate(phase, cost) ==
    /\ Len(tracker.calls) < MaxRecords
    /\ tracker' =
          [calls |-> Append(tracker.calls, [phase |-> phase, cost |-> cost]),
           total_cost_usd |->
              SumCosts(SelectSeq(tracker.calls,
                                 LAMBDA c : c.phase = phase)) + cost]
    /\ UNCHANGED <<OrchVars, green, csv, conv, alpha, guard, llm>>

\* a phase records the cost of one call
record(phase, cost) ==
    /\ Len(tracker.calls) < MaxRecords
    /\ tracker' =
          [calls |-> Append(tracker.calls, [phase |-> phase, cost |-> cost]),
           total_cost_usd |-> tracker.total_cost_usd + cost]
    /\ UNCHANGED <<OrchVars, green, csv, conv, alpha, guard, llm>>

\* ------------------------------------------------ evaluators.llm_utils
\* The module keeps one global configuration.  An instance is named by its
\* position in built, which holds the macro model each instance was built
\* with; cached = 0 is None.  env is EVAL_LLM_MACRO_MODEL, or the default when
\* it is unset.  log records the calls, each get with what it returned.
MaxConfigCalls == 3     \* get and reset calls in one run

MacroModels == {"gpt-4o-mini", "custom-model"}

get_evaluator_llm_config_NeverCaches ==
    /\ Len(llm.log) < MaxConfigCalls
    /\ LET built == Append(llm.built, llm.env)
           instance == Len(built)
       IN  llm' = [llm EXCEPT !.built = built, !.cached = instance,
                      !.log = Append(@, [op |-> "get", instance |-> instance,
                                         model |-> built[instance],
                                         env |-> llm.env])]
    /\ UNCHANGED <<OrchVars, green, csv, conv, alpha, guard, tracker>>

get_evaluator_llm_config ==
    /\ Len(llm.log) < MaxConfigCalls
    /\ LET built == IF llm.cached = 0 THEN Append(llm.built, llm.env)
                    ELSE llm.built
           instance == IF llm.cached = 0 THEN Len(built) ELSE llm.cached
       IN  llm' = [llm EXCEPT !.built = built, !.cached = instance,
                      !.log = Append(@, [op |-> "get", instance |-> instance,
                                         model |-> built[instance],
                                         env |-> llm.env])]
    /\ UNCHANGED <<OrchVars, green, csv, conv, alpha, guard, tracker>>

reset_evaluator_llm_config ==
    /\ Len(llm.log) < MaxConfigCalls
    /\ llm' = [llm EXCEPT !.cached = 0,
                  !.log = Append(@, [op |-> "reset", instance |-> 0,
                                     model |-> "", env |-> llm.env])]
    /\ UNCHANGED <<OrchVars, green, csv, conv, alpha, guard, tracker>>

\* the environment changes between two calls
patch_environ(model) ==
    /\ llm.env # model
    /\ llm' = [llm EXCEPT !.env = model]
    /\ UNCHANGED <<OrchVars, green, csv, conv, alpha, guard, tracker>>

\* ------------------------------------------------ the components, each on
\* ------------------------------------------------ its own; the pure ones are
\* ------------------------------------------------ applied once to an input
NextLib ==
    \/ /\ Only(1) /\ ~conv.called
       /\ \E n \in 0..MaxQuestions :
            \E qs \in [1..n -> SyntheticQuestion] :
               \E num_tasks \in (0 - MaxQuestions - 1)..(MaxQuestions + 1) :
                  convert(qs, num_tasks)
    \/ /\ Only(2) /\ ~alpha.called
       /\ \E in \in AlphaInputs : compute_alpha(in)
    \/ /\ Only(3) /\ ~guard.called
       /\ \E n \in 0..MaxCites :
            \E cited \in [1..n -> CitedFacts] :
               \E simulation_date \in {1, 2} :
                  scan(cited, simulation_date)
    \/ /\ Only(4)
       /\ \E phase \in DimensionScorers :
            \E cost \in {0, 1, 3} : record(phase, cost)
    \/ /\ Only(5)
       /\ \/ get_evaluator_llm_config
          \/ reset_evaluator_llm_config
          \/ \E model \in MacroModels : patch_environ(model)

SpecLib == Init /\ [][NextLib]_vars

\* ------------------------------------------------ waits, with the scheduling
\* the event loop guarantees.  The orchestrator and GreenAgent.run are
\* separate objects that never call each other: a behaviour exercises one.
\* The waits are exercised for one agent id, in both phases.
WaitAgents == {"a1"}

\* the waits do not depend on the tickers, on the simulation date or on the
\* alpha scores: one subject is exercised
OneSubject ==
    /\ green'.ticker = "NVDA"
    /\ green'.simulation_date = Absent
    /\ \A k \in 1..Len(green'.all_results) :
          green'.all_results[k].alpha_score # "0.125"
    /\ \A k \in 1..Len(green'.tasks) : green'.tasks[k].ticker = "NVDA"

NextWaits ==
    \/ /\ green = GreenInit
       /\ UNCHANGED named /\ Unasked
       /\ \/ \E f \in Flows, a \in WaitAgents, t \in Timeouts :
                receive_task_response(f, a, t)
          \/ \E f \in Flows, a \in WaitAgents, t \in Timeouts :
                receive_rebuttal(f, a, t)
          \/ \E f \in Flows : wait_for_timeout(f)
          \/ \E f \in Flows : cancel(f)
          \/ \E f \in Flows : wait_for_resume(f)
          \/ \E a \in WaitAgents : deliver_response(a, nextReply)
          \/ \E a \in WaitAgents : deliver_rebuttal(a, nextReply)
    \/ /\ OpsSoFar = 0
       /\ GreenNext
       /\ OneSubject

\* An armed timer fires, a woken task is run, a request ends if the caller
\* bounded it: the task call is made with timeout=300 (line 189), the
\* challenge call with no timeout (lines 214-218).
FairWaits ==
    /\ \A f \in Flows : WF_vars(wait_for_timeout(f) /\ UNCHANGED named /\ Unasked)
    /\ \A f \in Flows : WF_vars(wait_for_resume(f) /\ UNCHANGED named /\ Unasked)
    /\ WF_vars(/\ talk_to_agent(ExplicitTimeout).bounded
               /\ \E o \in TalkOutcomes : task_call_ends(o))
    /\ WF_vars(/\ talk_to_agent(DefaultTimeout).bounded
               /\ \E o \in TalkOutcomes : challenge_call_ends(o))

SpecWaits == Init /\ [][NextWaits]_vars /\ FairWaits

NextCaller ==
    \/ Next
    \/ \E e \in ListEdits : caller_edits_history(e) /\ UNCHANGED named /\ Unasked

\* the orchestrator together with a caller that edits what history returns
SpecCaller == Init /\ [][NextCaller]_vars

TypeOK ==
    /\ pending_responses \in [Keys -> Flows \cup {NoFlow}]
    /\ pc \in [Flows -> {"idle", "sending"} \cup WaitPcs]
    /\ fut \in [Flows -> {Pending, Cancelled} \cup Replies]
    /\ OpsSoFar <= MaxOps

\* ======================================================== the claims
RecvOps == {"receive_task_response", "receive_rebuttal"}
\* some receive_* call has finished; `last` describes the latest one
Finished == last.op \in RecvOps
\* flow f leaves its receive_* call in this step
Returns(f) == Blocked(f) /\ pc'[f] = "idle"
\* a wait on key k is blocked
Waiting(k) == \E g \in Flows : Blocked(g) /\ call[g].key = k

\* C1: a second receive_* for a key whose wait is still pending fails fast and
\* never overwrites the slot, so there is at most one blocked waiter per
\* (agent id, phase) in every reachable state.
C1_OneWaiterPerKey ==
    \A f, g \in Flows :
        (f # g /\ Blocked(f) /\ Blocked(g)) => call[f].key # call[g].key

\* C2: a receive_* during which no reply was delivered and which was not
\* cancelled returns None (the no-response result, not an exception), and
\* whenever a receive_* returns the timeout result the pending map holds no
\* slot for its key at that moment.
C2_TimeoutReturnsNone ==
    [][\A f \in Flows :
         Returns(f) =>
           /\ (call[f].first = None /\ pc[f] # "unwindC")
                 => (last'.outcome = "timeout" /\ last'.value = None)
           /\ last'.outcome = "timeout"
                 => (last'.value = None
                     /\ pending_responses'[call[f].key] = NoFlow)]_vars

C2_Witness ==
    /\ Finished
    /\ last.outcome = "timeout"
    /\ last.first = None
    /\ pending_responses[last.key] = NoFlow

\* C3: after a receive_task_response for an agent timed out, its slot is
\* released, and a later receive_task_response for the same agent (not
\* overlapping any other wait on that key) during which a reply is delivered
\* gets exactly that reply.
C3_LaterCallAfterTimeout ==
    /\ (Finished /\ last.outcome = "timeout" /\ ~Waiting(last.key))
          => pending_responses[last.key] = NoFlow
    /\ \A f \in Flows :
         (call[f].op = "receive_task_response" /\ call[f].prior = "timeout"
            /\ ~call[f].overlap /\ call[f].first # None)
           => (pc[f] \in LivePcs /\ fut[f] = call[f].first)
    /\ (last.op = "receive_task_response" /\ last.prior = "timeout"
          /\ ~last.overlap /\ last.first # None)
          => (last.outcome = "reply" /\ last.value = last.first)

C3_Witness ==
    /\ last.op = "receive_task_response"
    /\ last.prior = "timeout"
    /\ ~last.overlap
    /\ last.outcome = "reply"
    /\ last.value = last.first

\* C4: a deliver_* made when no slot is pending for the key changes neither
\* the pending map, nor the audit log, nor any future or flow, and the reply
\* it dropped is never the result of any future nor returned by any receive_*.
WasDropped(r) == r \in Replies /\ dropped[r] # NotDropped
C4_DropIsNoOp ==
    [][/\ dropped' # dropped
          => /\ message_log' = message_log
             /\ pending_responses' = pending_responses
             /\ fut' = fut
             /\ pc' = pc
       /\ \A f \in Flows : ~WasDropped(fut[f])'
       /\ ~WasDropped(last.value)'
      ]_vars

\* the reply was dropped while send_task_assignment to the agent was still
\* running, and a receive_task_response for that agent started afterwards
\* has finished without it
C4_Witness ==
    \E r \in Replies :
        /\ dropped[r].sending
        /\ last.op = "receive_task_response"
        /\ last.key = dropped[r].key
        /\ last.afterDrop
        /\ last.outcome = "timeout"

\* C5: a reply delivered while a receive_task_response for the agent is the
\* one pending wait on its key is what that call returns; when several
\* replies are delivered before it resumes it returns the first of them.
C5_FirstDeliveredIsReturned ==
    /\ \A f \in Flows :
         (call[f].op = "receive_task_response" /\ ~call[f].overlap
            /\ call[f].first # None)
           => (pc[f] \in LivePcs /\ fut[f] = call[f].first)
    /\ (last.op = "receive_task_response" /\ ~last.overlap
          /\ last.first # None)
          => (last.outcome = "reply" /\ last.value = last.first)

C5_Witness ==
    /\ last.op = "receive_task_response"
    /\ ~last.overlap
    /\ last.more
    /\ last.outcome = "reply"
    /\ last.value = last.first

\* C6: when a flow blocked in receive_* is cancelled, its slot is gone from
\* the pending map at the moment the call ends, and a later wait on the same
\* key (not overlapping another one) during which a reply is delivered gets
\* that reply.
C6_CancelReleasesSlot ==
    [][/\ \A f \in Flows :
            (Returns(f) /\ pc[f] \in {"cancelreq", "unwindC"})
               => pending_responses'[call[f].key] = NoFlow
       /\ (last'.op \in RecvOps /\ last'.prior = "cancelled"
             /\ ~last'.overlap /\ last'.first # None)
             => (last'.outcome = "reply" /\ last'.value = last'.first)
      ]_vars

C6_Witness ==
    /\ Finished
    /\ last.prior = "cancelled"
    /\ ~last.overlap
    /\ last.outcome = "reply"
    /\ pending_responses[last.key] = NoFlow

\* C7: every wait on the candidate agent is bounded by a timeout and so ends:
\* a flow blocked in receive_task_response or receive_rebuttal eventually
\* leaves the call, and each of the two talk_to_agent calls of GreenAgent.run
\* eventually ends.
C7_WaitsEnd ==
    /\ \A f \in Flows : Blocked(f) ~> (pc[f] = "idle")
    /\ (green.pc = "task_call") ~> (green.pc # "task_call")
    /\ (green.pc = "challenge_call") ~> (green.pc # "challenge_call")

\* C8: whenever receive_task_response has returned an AgentResponse (or
\* receive_rebuttal a DebateRebuttal) the audit log holds a response (resp.
\* rebuttal) message from that agent, placed after the task-assignment (resp.
\* challenge) message sent to it.
C8_RepliesAreLogged ==
    (Finished /\ last.outcome = "reply") =>
        LET agent == last.key[2]
            rtype == IF last.op = "receive_task_response"
                       THEN "response" ELSE "rebuttal"
            stype == IF last.op = "receive_task_response"
                       THEN "task_assignment" ELSE "challenge"
        IN  \E i, j \in DOMAIN message_log :
              /\ j < i
              /\ message_log[j].message_type = stype
              /\ message_log[j].receiver_id = agent
              /\ message_log[i].message_type = rtype
              /\ message_log[i].sender_id = agent

\* C9: the audit log is append-only under every orchestrator operation: each
\* step leaves the messages already logged at their positions, unchanged.
C9_LogAppendOnly ==
    [][/\ Len(message_log') >= Len(message_log)
       /\ SubSeq(message_log', 1, Len(message_log)) = message_log]_vars

C9_Witness ==
    /\ Len(message_log) >= 2
    /\ nHist > 0

\* C10: whatever the filters, editing the list get_message_history returned
\* does not change the audit log.
C10_HistoryIsReadOnly ==
    [][nMut' # nMut => message_log' = message_log]_vars

\* C11: get_message_history(agent_id, message_type) returns exactly the
\* messages of the audit log, in log order, whose sender or receiver is
\* agent_id (when that filter is given) and whose type is message_type (when
\* that filter is given); with no filter it returns the whole log.  A filter
\* is given when it is neither None nor the empty string.
Given(x) == x # "None" /\ x # ""
Wanted(log, agent_id, message_type) ==
    SelectSeq(log, LAMBDA m :
        /\ Given(agent_id) => (m.sender_id = agent_id \/ m.receiver_id = agent_id)
        /\ Given(message_type) => m.message_type = message_type)
C11_HistoryIsFilteredLog ==
    [][nHist' # nHist =>
         Returned' = Wanted(message_log, asked'.agent_id, asked'.message_type)]_vars

\* a query with both filters that keeps some messages of the log and drops
\* others
C11_Witness ==
    /\ asked.op = "get_message_history"
    /\ asked.agent_id \in Agents
    /\ asked.message_type \in A2AMessageType
    /\ ~history.alias
    /\ Len(history.items) >= 1
    /\ Len(history.items) < Len(message_log)

\* C12: send_task_assignment (send_challenge) appends exactly one
\* task-assignment (challenge) message from the orchestrator's id to the
\* target agent, returns that message, and neither opens a pending slot nor
\* changes the pending map or blocks a flow in a wait.
SentType(op) == IF op = "send_task_assignment" THEN "task_assignment"
                                               ELSE "challenge"
C12_SendOnlyLogs ==
    [][/\ nSent' # nSent =>
            LET m == message_log'[Len(message_log')]
            IN  /\ message_log' = Append(message_log, m)
                /\ m.message_type = SentType(asked'.op)
                /\ m.sender_id = CioAgentId
                /\ m.receiver_id = asked'.agent_id
                /\ pending_responses' = pending_responses
                /\ fut' = fut
                /\ \A f \in Flows : Blocked(f)' => Blocked(f)
                /\ ~message_handler => sent' = m.id
                /\ message_handler =>
                      \E f \in Flows : /\ pc[f] = "idle" /\ pc'[f] = "sending"
                                        /\ call'[f].value = m.id
                                        /\ sent' = sent
       /\ \A f \in Flows :
            (pc[f] = "sending" /\ pc'[f] = "idle") =>
                /\ sent' = call[f].value
                /\ message_log' = message_log
                /\ pending_responses' = pending_responses
                /\ \E i \in DOMAIN message_log :
                      /\ message_log[i].id = sent'
                      /\ message_log[i].message_type = SentType(call[f].op)
                      /\ message_log[i].receiver_id = call[f].key[2]
      ]_vars

\* a challenge was sent through the handler and returned while a wait was
\* pending
C12_Witness ==
    /\ message_handler
    /\ asked.op = "send_challenge"
    /\ Len(message_log) >= 1
    /\ sent = message_log[Len(message_log)].id
    /\ message_log[Len(message_log)].message_type = "challenge"
    /\ \A f \in Flows : pc[f] # "sending"
    /\ \E k \in Keys : pending_responses[k] # NoFlow

\* C13: slots are keyed by (agent id, phase): a deliver_rebuttal resolves
\* only a receive_rebuttal of the same agent, a deliver_response only a
\* receive_task_response of the same agent, and no delivery removes a slot or
\* ends a wait.
WaitOp(deliver_op) == IF deliver_op = "deliver_response"
                        THEN "receive_task_response" ELSE "receive_rebuttal"
C13_DeliveryIsKeyed ==
    [][nextReply' # nextReply =>
         /\ \A f \in Flows :
               fut'[f] # fut[f] => /\ call[f].op = WaitOp(asked'.op)
                                   /\ call[f].key[2] = asked'.agent_id
         /\ pending_responses' = pending_responses
         /\ pc' = pc]_vars

\* deliver_rebuttal for an agent was the last call made while a
\* receive_task_response of that agent and one of another agent were pending:
\* both are still unresolved
C13_Witness ==
    /\ asked.op = "deliver_rebuttal"
    /\ \E f, g \in Flows :
          /\ pc[f] \in LivePcs /\ fut[f] = Pending
          /\ call[f].op = "receive_task_response"
          /\ call[f].key[2] = asked.agent_id
          /\ pc[g] \in LivePcs /\ fut[g] = Pending
          /\ call[g].op = "receive_task_response"
          /\ call[g].key[2] # asked.agent_id

\* ------------------------------------------------ the per-task loop
RunEnded(g) == g.pc \in {"report", "done"}
Failing(entry) == entry.error # Absent

\* C14: a run of GreenAgent.run that reports its results has exactly one
\* outcome per task, in task order: all_results is as long as the task list
\* and its i-th entry carries the i-th task's id, whichever tasks failed.
\* While the loop runs, the tasks before the current one have their outcome.
C14_OneOutcomePerTask ==
    /\ RunEnded(green) => Len(green.all_results) = Len(green.tasks)
    /\ green.pc \in {"task_status", "task_call", "debate_status",
                     "challenge_call", "evaluate"}
          => Len(green.all_results) = green.i - 1
    /\ \A k \in 1..Len(green.all_results) :
          /\ k <= Len(green.tasks)
          /\ green.all_results[k].task_id = green.tasks[k].question_id

C14_Witness ==
    /\ green.pc = "done"
    /\ Len(green.tasks) >= 2
    /\ Failing(green.all_results[1])
    /\ ~Failing(green.all_results[2])

\* the two shapes of an outcome
CompleteScore(entry) ==
    /\ entry.error \in {Absent, "None"}
    /\ entry.alpha_score \in AlphaScores
    /\ entry.role_score = "total"
    /\ entry.debate_multiplier # Absent
FailureReason(entry) ==
    /\ entry.error \notin {Absent, "None"}
    /\ entry.alpha_score = Absent
    /\ entry.role_score = Absent
    /\ entry.debate_multiplier = Absent

\* C15: every outcome in all_results is either a complete score (alpha score,
\* role score and debate multiplier, no error) or a failure reason with no
\* score: an outcome with an error never carries an alpha score.
C15_ScoreOrFailure ==
    \A k \in 1..Len(green.all_results) :
        \/ CompleteScore(green.all_results[k])
        \/ FailureReason(green.all_results[k])

\* C16: a task that fails gets an error outcome and the loop goes on: when
\* the run reports, every task was sent, the failing tasks are exactly those
\* with a failure outcome and every other task has a complete outcome; the
\* same for the templates of run_csv_eval's main.
C16_FailuresStayLocal ==
    /\ RunEnded(green) =>
          /\ Len(green.all_results) = green.num_tasks
          /\ \A k \in 1..green.num_tasks :
                /\ green.trace[k].task_messages = 1
                /\ green.trace[k].raised <=> Failing(green.all_results[k])
                /\ ~green.trace[k].raised =>
                      /\ green.trace[k].graded
                      /\ green.all_results[k] \in
                            {ResultEntry(green.tasks[k], r) : r \in EvaluationResults}
    /\ csv.pc \in {"summary", "done"} =>
          /\ Len(csv.results) = csv.templates
          /\ \A k \in 1..csv.templates :
                /\ k \in csv.failed <=> FailureReason(csv.results[k])
                /\ k \notin csv.failed <=> CompleteScore(csv.results[k])

C16_Witness ==
    /\ green.pc = "done"
    /\ green.num_tasks >= 2
    /\ green.trace[1].raised
    /\ green.trace[1].agent_response = 1
    /\ ~green.trace[2].raised

\* C17 as stated: every task the loop is done with has exactly one
\* AgentResponse, and one DebateRebuttal if and only if debate is enabled.
C17_ExactlyOneResponse ==
    \A k \in 1..Len(green.trace) :
        (k < green.i \/ RunEnded(green)) =>
            /\ green.trace[k].agent_response = 1
            /\ green.trace[k].agent_rebuttal = 1 <=> green.conduct_debate

\* C17, amended: for every task, at most one task message is sent, at most one
\* AgentResponse and at most one DebateRebuttal are built, and a
\* DebateRebuttal only when debate is enabled; every task that is evaluated
\* was sent once and has exactly one AgentResponse, and one DebateRebuttal if
\* and only if debate is enabled.
C17_OneResponseOneRebuttal ==
    \A k \in 1..Len(green.trace) :
        LET t == green.trace[k]
            evaluated == t.graded \/ (k = green.i /\ green.pc = "evaluate")
        IN  /\ t.task_messages <= 1
            /\ t.agent_response <= t.task_messages
            /\ t.agent_rebuttal <= t.agent_response
            /\ t.agent_rebuttal = 1 => green.conduct_debate
            /\ (k < green.i \/ RunEnded(green)) => t.task_messages = 1
            /\ evaluated =>
                  /\ t.task_messages = 1
                  /\ t.agent_response = 1
                  /\ t.agent_rebuttal = 1 <=> green.conduct_debate

C17_Witness ==
    /\ green.pc = "done"
    /\ green.conduct_debate
    /\ green.num_tasks >= 2
    /\ green.trace[1].raised /\ green.trace[1].agent_response = 0
    /\ green.trace[2].graded /\ green.trace[2].agent_rebuttal = 1

\* C18: with debate enabled, the debate of a task only moves NotStarted ->
\* ChallengeSent -> RebuttalReceived or RebuttalTimedOut -> Scored: the
\* challenge is sent after the agent's answer was received (by the step that
\* follows the status update of the debate), at most once per task, and the
\* task is scored only from RebuttalReceived or RebuttalTimedOut.
C18_DebateStateMachine ==
    [][green.conduct_debate =>
         \A k \in 1..Len(green.trace) :
            LET old == green.trace[k]
                new == green'.trace[k]
            IN  /\ new.debate # old.debate =>
                      <<old.debate, new.debate>> \in
                          {<<"NotStarted", "ChallengeSent">>,
                           <<"ChallengeSent", "RebuttalReceived">>,
                           <<"ChallengeSent", "RebuttalTimedOut">>,
                           <<"RebuttalReceived", "Scored">>,
                           <<"RebuttalTimedOut", "Scored">>}
                /\ new.challenges # old.challenges =>
                      /\ green.pc = "debate_status" /\ k = green.i
                      /\ old.agent_response = 1 /\ new.agent_response = 1
                      /\ old.challenges = 0 /\ new.challenges = 1
                      /\ new.debate = "ChallengeSent"
                /\ new.debate = "ChallengeSent" => new.challenges = 1]_vars

C18_Witness ==
    /\ green.conduct_debate
    /\ green.num_tasks >= 2
    /\ green.trace[1].debate = "RebuttalTimedOut"
    /\ green.trace[2].debate = "Scored"
    /\ green.trace[2].challenges = 1

\* C19: when the challenge of a task's debate has been issued, the grading of
\* the task's response (evaluate_response) has completed.
C19_GradedBeforeChallenge ==
    \A k \in 1..Len(green.trace) :
        green.trace[k].debate = "ChallengeSent" => green.trace[k].graded

\* C20: with debate disabled, every debate result has multiplier 1.0 and
\* conviction level "not evaluated", and that multiplier is the one reported,
\* by GreenAgent.run (conduct_debate false) and by run_csv_eval (--no-debate).
C20_DisabledDebateIsNeutral ==
    /\ ~green.conduct_debate =>
          \A k \in 1..Len(green.all_results) :
             ~Failing(green.all_results[k]) =>
                /\ green.trace[k].debate_result =
                      [debate_multiplier |-> "1.0", conviction_level |-> "not evaluated"]
                /\ green.all_results[k].debate_multiplier = "1.0"
    /\ csv.no_debate =>
          \A k \in 1..Len(csv.results) :
             k \notin csv.failed => csv.results[k].debate_multiplier = "1.0"

C20_Witness ==
    /\ ~green.conduct_debate
    /\ green.pc = "done"
    /\ green.num_tasks >= 2
    /\ \A k \in 1..2 : green.trace[k].graded

\* the lowest tier of the conviction levels
LowestTier == "weak"

\* C21: with debate enabled, a task whose rebuttal timed out is still scored:
\* its outcome is not a failure and its debate result has the lowest
\* conviction tier with that tier's multiplier.
C21_TimeoutScoredLowest ==
    green.conduct_debate =>
       \A k \in 1..Len(green.all_results) :
          green.trace[k].debate = "RebuttalTimedOut" =>
             /\ ~Failing(green.all_results[k])
             /\ green.trace[k].debate_result =
                   [debate_multiplier |-> Multiplier(LowestTier),
                    conviction_level |-> LowestTier]

\* C22: the counter-argument of every challenge names the ticker of the task
\* that is challenged.
C22_ChallengeNamesTaskTicker ==
    \A k \in 1..Len(green.trace) :
        green.trace[k].challenges > 0 =>
            green.trace[k].counter_arg = green.tasks[k].ticker

\* C27: a run whose request cannot be parsed or lacks the purple_agent role
\* has called reject exactly once and is over: no working status, no message
\* to the purple agent, no result, no artifact, then or later; a run whose
\* request is valid never calls reject.
C27_InvalidRequestRejected ==
    [][/\ ~green'.valid_request =>
             /\ green'.pc = "rejected"
             /\ green'.updater = [reject |-> 1, working |-> FALSE,
                                   artifacts |-> 0, failed |-> 0]
             /\ green'.trace = <<>>
             /\ green'.all_results = <<>>
       /\ green.pc = "rejected" => green' = green
       /\ green'.valid_request => green'.updater.reject = 0]_vars

C27_Witness ==
    /\ green.pc = "rejected"
    /\ ~green.valid_request
    /\ green.updater.reject = 1

\* C28: _convert_synthetic_to_tasks returns at most num_tasks tasks (none
\* when num_tasks is not positive): the first min(num_tasks, number of
\* questions) questions, one task each, in input order, each with its
\* question's question_id.
C28_ConvertsFirstQuestions ==
    conv.called =>
       LET most == IF conv.num_tasks > 0 THEN conv.num_tasks ELSE 0
       IN  /\ Len(conv.tasks) <= most
           /\ \/ Len(conv.tasks) = most
              \/ Len(conv.tasks) = Len(conv.synthetic_questions)
           /\ \A k \in 1..Len(conv.tasks) :
                 conv.synthetic_questions[k].question_id # Absent =>
                    conv.tasks[k].question_id =
                       <<conv.synthetic_questions[k].question_id>>

\* C29: every task of a conversion has a category and a difficulty: the
\* question's own when it is a value of the enum, Quantitative Retrieval and
\* medium when it is not (or is missing); no ValueError comes out.
C29_UnknownEnumFallsBack ==
    conv.called =>
       \A k \in 1..Len(conv.tasks) :
          LET sq == conv.synthetic_questions[k]
              task == conv.tasks[k]
          IN  /\ task.category = IF sq.category \in TaskCategories
                                   THEN sq.category ELSE "Quantitative Retrieval"
              /\ task.difficulty = IF sq.difficulty \in TaskDifficulties
                                     THEN sq.difficulty ELSE "medium"

C29_Witness ==
    /\ conv.called
    /\ Len(conv.tasks) = 2
    /\ conv.synthetic_questions[1].category = "Invalid Category"
    /\ conv.synthetic_questions[1].difficulty = "impossible"
    /\ conv.synthetic_questions[2].category = "Qualitative Retrieval"
    /\ conv.synthetic_questions[2].difficulty = "easy"

\* C23: for a positive cost the alpha score is (roleScore * multiplier) /
\* (ln(1 + cost) * (1 + penalty)); raising the role score or the multiplier
\* never lowers it, raising the cost or the penalty never raises it.
C23_AlphaFormulaMonotone ==
    alpha.called /\ alpha.in[3] > 0 =>
       LET a == alpha.score
           AtLeast(x, y) == x.num * y.den >= y.num * x.den
       IN  /\ a.error = "none" /\ a.den > 0
           /\ a.num * (Ln1p(alpha.in[3]) * (10 + alpha.in[4]))
                 = (alpha.in[1] * alpha.in[2] * 100) * a.den
           /\ \A other \in AlphaInputs :
                 LET b == AlphaScore(other[1], other[2], other[3], other[4])
                 IN  /\ other[3] > 0
                     /\ other[1] >= alpha.in[1] /\ other[2] >= alpha.in[2]
                     /\ other[3] <= alpha.in[3] /\ other[4] <= alpha.in[4]
                     => AtLeast(b, a)

C23_Witness ==
    /\ alpha.called
    /\ alpha.in = <<80, 11, 5, 2>>
    /\ alpha.score.num * 60 = 88000 * alpha.score.den

\* C24: a cost of exactly zero gives a defined, finite alpha score (no
\* division by zero), and a negative cost gives an error, not a score.
C24_ZeroAndNegativeCost ==
    alpha.called =>
       /\ alpha.in[3] = 0 => alpha.score.error = "none" /\ alpha.score.den > 0
       /\ alpha.in[3] < 0 =>
             alpha.score = [error |-> "InvalidCost", num |-> 0, den |-> 0]

C24_Witness ==
    /\ alpha.called
    /\ alpha.in[3] = 0
    /\ alpha.in[1] > 0
    /\ alpha.score.num > 0

\* C25: a cited fact whose effective date is not after the simulation date
\* produces no violation, a fact of unknown date produces no violation, a fact
\* dated strictly after the simulation date produces exactly one violation
\* however often it is cited, and the penalty never falls as the number of
\* violations grows.
C25_LookaheadViolations ==
    guard.called =>
       /\ \A k \in 1..Len(guard.cited) :
             LET fact == guard.cited[k]
                 v == Violation(fact, guard.simulation_date)
                 n == Cardinality({j \in 1..Len(guard.violations) :
                                      guard.violations[j] = v})
             IN  IF fact.known /\ fact.date > guard.simulation_date
                 THEN n = 1
                 ELSE \A j \in 1..Len(guard.violations) :
                         guard.violations[j].fact # fact.id
                         \/ guard.violations[j].effective_date # fact.date
       /\ \A j \in 1..Len(guard.violations) :
             \E k \in 1..Len(guard.cited) :
                guard.violations[j]
                   = Violation(guard.cited[k], guard.simulation_date)
       /\ guard.penalty >= 0
       /\ \A fewer \in 0..Len(guard.violations) :
             PenaltyTerm(fewer) <= guard.penalty

C25_Witness ==
    /\ guard.called
    /\ Len(guard.cited) = 3
    /\ guard.cited[1] = guard.cited[3]
    /\ guard.cited[1].known
    /\ guard.cited[1].date > guard.simulation_date
    /\ ~guard.cited[2].known
    /\ Len(guard.violations) = 1
    /\ guard.penalty = 2

\* C26: however the records of the concurrently running phases interleave,
\* the tracker's total is the sum of the costs of all recorded calls, no
\* recorded call is ever retracted, and the total never decreases.
C26_TotalLosesNoUpdate ==
    /\ [](tracker.total_cost_usd = SumCosts(tracker.calls))
    /\ [][/\ tracker'.total_cost_usd >= tracker.total_cost_usd
          /\ Len(tracker'.calls) >= Len(tracker.calls)
          /\ SubSeq(tracker'.calls, 1, Len(tracker.calls)) = tracker.calls]_vars

C26_Witness ==
    /\ Len(tracker.calls) = 3
    /\ {tracker.calls[k].phase : k \in 1..3} = DimensionScorers
    /\ tracker.calls[1].phase = "execution"
    /\ tracker.total_cost_usd = 7

\* C30: over any sequence of get_evaluator_llm_config and
\* reset_evaluator_llm_config calls, two gets with no reset between them
\* return the same instance, and the first get after a reset returns an
\* instance no earlier get returned, built from the environment as it is at
\* the time of that get.
C30_ConfigCachedUntilReset ==
    \A j \in 1..Len(llm.log) :
       llm.log[j].op = "get" =>
          /\ \A i \in 1..(j - 1) :
                /\ llm.log[i].op = "get"
                /\ \A k \in i..j : llm.log[k].op # "reset"
                => llm.log[i].instance = llm.log[j].instance
          /\ j > 1 /\ llm.log[j - 1].op = "reset" =>
                /\ \A i \in 1..(j - 1) :
                      llm.log[i].op = "get"
                      => llm.log[i].instance # llm.log[j].instance
                /\ llm.log[j].model = llm.log[j].env

C30_Witness ==
    /\ Len(llm.log) = 3
    /\ llm.log[1].op = "get" /\ llm.log[1].model = "gpt-4o-mini"
    /\ llm.log[2].op = "reset"
    /\ llm.log[3].op = "get" /\ llm.log[3].model = "custom-model"
    /\ llm.log[3].instance # llm.log[1].instance

\* C31: while a receive_task_response or receive_rebuttal call is blocked and
\* its future can still be resolved, the pending map holds that call's own
\* future under its key; and when one wait ends, the slot that holds another
\* still blocked wait's future is neither removed nor replaced.
C31_BlockedWaiterKeepsSlot ==
    /\ [](\A f \in Flows :
             pc[f] \in LivePcs => pending_responses[call[f].key] = f)
    /\ [][\A f, g \in Flows :
             /\ f # g
             /\ Blocked(f) /\ pc'[f] = "idle"
             /\ pc[g] \in LivePcs /\ pc'[g] \in LivePcs
             /\ pending_responses[call[g].key] = g
             => pending_responses'[call[g].key] = g]_vars

\* C32: a receive_task_response that returns an AgentResponse returns one
\* whose task_id is the task most recently assigned to that agent (the last
\* task-assignment message to the agent in the log), never the reply to an
\* earlier task.  Stated for the returns of the response delivered last, whose
\* task_id the run has recorded, when some task was assigned to the agent.
C32_NoLateReply ==
    [][\A f \in Flows :
          LET agent_id == call[f].key[2]
              assigned == {i \in 1..Len(message_log) :
                              /\ message_log[i].message_type = "task_assignment"
                              /\ message_log[i].receiver_id = agent_id}
              latest == CHOOSE i \in assigned : \A j \in assigned : j <= i
          IN  /\ pc[f] \in LivePcs /\ pc'[f] = "idle"
              /\ last'.op = "receive_task_response"
              /\ last'.outcome = "reply"
              /\ last'.value = nextReply - 1
              /\ asked.op = "deliver_response"
              /\ assigned # {}
              => asked.task_id = message_log[latest].task_id]_vars

\* C33: send_task_assignment and send_challenge append the message to the
\* audit log before they invoke the message handler, so while the handler runs
\* on a message that message is in the log; and when the handler raises, the
\* call raises too and the message stays in the log.
C33_LoggedBeforeHandler ==
    /\ [](\A f \in Flows :
             pc[f] = "sending" =>
                \E i \in 1..Len(message_log) : message_log[i].id = call[f].value)
    /\ [][\A f \in Flows :
             pc[f] = "sending" /\ pc'[f] = "idle" /\ sent' < 0 =>
                /\ sent' = 0 - call[f].value
                /\ message_log' = message_log
                /\ \E i \in 1..Len(message_log') :
                      message_log'[i].id = call[f].value]_vars

C33_Witness ==
    /\ sent < 0
    /\ Len(message_log) = 2
    /\ message_log[2].id = 0 - sent
    /\ message_log[2].message_type = "challenge"

\* C34: GreenAgent.run evaluates the tasks one after another: whenever a
\* message (task message or challenge) of task k is sent, the outcomes of the
\* k - 1 tasks before it, and no more, have been recorded, and no message of
\* a later task has been sent; and the task message of a task is sent before
\* its challenge.
C34_TasksOneAfterAnother ==
    [][\A k \in 1..Len(green'.trace) :
          LET new == green'.trace[k]
              task_sent == IF k <= Len(green.trace)
                             THEN green.trace[k].task_messages ELSE 0
              challenged == IF k <= Len(green.trace)
                              THEN green.trace[k].challenges ELSE 0
          IN  /\ new.task_messages > task_sent =>
                    /\ Len(green'.all_results) = k - 1
                    /\ new.challenges = 0
                    /\ \A j \in (k + 1)..Len(green'.trace) :
                          green'.trace[j].task_messages = 0
              /\ new.challenges > challenged =>
                    /\ task_sent = 1
                    /\ Len(green'.all_results) = k - 1
                    /\ \A j \in (k + 1)..Len(green'.trace) :
                          green'.trace[j].task_messages = 0]_vars

C34_Witness ==
    /\ green.pc = "challenge_call"
    /\ green.i = 2
    /\ green.trace[2].challenges = 1
    /\ Len(green.all_results) = 1

\* C35: when the request config gives a simulation_date, every task of the
\* run has exactly that date as its simulation date, whichever source the
\* tasks come from (generator, synthetic questions, default task); without a
\* configured date every task has the current date.
C35_CutoffIsConfigured ==
    \A k \in 1..Len(green.tasks) :
        green.tasks[k].simulation_date =
            IF green.simulation_date = Absent THEN "now"
                                              ELSE green.simulation_date

\* C36: a run that passed validation always evaluates at least one task:
\* once it is over, each of its tasks, and there is one at least, was
\* evaluated or got its error outcome.  When the source (the generator, or
\* the synthetic questions cut to num_tasks) yielded no task, the tasks are
\* exactly one default task for the configured ticker; otherwise they are
\* exactly the tasks the source yielded, in that order.  The generator is
\* never called when synthetic questions were supplied.
C36_DefaultTaskWhenNone ==
    /\ green.synthetic_questions > 0 => green.generator_calls = 0
    /\ green.valid_request /\ green.pc \in {"done", "failed"} =>
          /\ Len(green.tasks) >= 1
          /\ \A k \in 1..Len(green.tasks) :
                green.trace[k].graded \/ green.trace[k].raised
    /\ green.pc \in {"task_status", "task_call", "debate_status",
                     "challenge_call", "evaluate", "report", "done"} =>
          /\ Len(green.tasks) >= 1
          /\ green.yielded = <<>> =>
                /\ Len(green.tasks) = 1
                /\ green.tasks[1].default
                /\ green.tasks[1].ticker = green.ticker
          /\ green.yielded # <<>> => green.tasks = green.yielded
          /\ \A k \in 1..Len(green.yielded) : ~green.yielded[k].default

\* C38: a run that passed validation ends in one of two ways: with exactly
\* one evaluation_result artifact and the failed state never reported, or with
\* the failed state reported once, the exception raised again and no artifact
\* (while the failed state is being reported the exception is not yet raised
\* again); before that it has done neither.  An exception raised while a task
\* is evaluated never leads to the failed state.
C38_ArtifactOrFailed ==
    green.valid_request =>
       /\ green.pc = "done" =>
             /\ green.updater.artifacts = 1
             /\ green.updater.failed = 0 /\ ~green.reraised
       /\ green.pc = "failed" =>
             /\ green.updater.failed = 1 /\ green.reraised
             /\ green.updater.artifacts = 0
       /\ green.pc = "failing" =>
             /\ green.updater.failed = 1 /\ ~green.reraised
             /\ green.updater.artifacts = 0
       /\ green.pc \notin {"done", "failing", "failed"} =>
             /\ green.updater.artifacts = 0
             /\ green.updater.failed = 0 /\ ~green.reraised
       /\ (\E k \in 1..Len(green.trace) : green.trace[k].raised) =>
             green.pc \notin {"failing", "failed"} /\ green.updater.failed = 0

C38_Witness ==
    /\ green.pc = "failed"
    /\ green.simulation_date = "2025-11-20"
    /\ green.generator_calls = 1
    /\ green.updater = [reject |-> 0, working |-> TRUE, artifacts |-> 0,
                        failed |-> 1]

\* C37: in the assessment result of a run, num_successful plus the number of
\* error outcomes is num_tasks, the number of tasks; average_alpha_score is
\* the mean (as the result gives it, rounded to two decimals) of the alpha
\* scores of the outcomes without error only; and it is 0.0 when every task
\* failed.
C37_AverageOfSuccessful ==
    green.pc = "done" =>
       LET a == green.assessment_result
           errors == {k \in 1..Len(green.all_results) :
                         Failing(green.all_results[k])}
           successful == {k \in 1..Len(green.all_results) :
                             ~Failing(green.all_results[k])}
           n == Cardinality(successful)
           total == SumAlpha(SelectSeq(green.all_results,
                                       LAMBDA r : ~Failing(r)))
           \* total is in sixteenths: the mean is 25 * total / (4 * n)
           \* hundredths
           off == 25 * total - 4 * n * a.average_alpha_score
       IN  /\ a.num_tasks = Len(green.tasks)
           /\ a.num_successful + Cardinality(errors) = a.num_tasks
           /\ a.num_successful = n
           /\ n = 0 => a.average_alpha_score = 0
           /\ n > 0 => off <= 2 * n /\ off >= 0 - 2 * n

C37_Witness ==
    /\ green.pc = "done"
    /\ Len(green.all_results) = 2
    /\ Failing(green.all_results[1])
    /\ green.all_results[2].alpha_score = "1.5"
    /\ green.assessment_result =
          [num_tasks |-> 2, num_successful |-> 1, average_alpha_score |-> 150]

====
